---- MODULE Spec2Model ----
(***************************************************************************)
(* Verification model of the Nhaka document-resurrection backend           *)
(* (src/main.py): the SwarmOrchestrator run (Scanner, the parallel group   *)
(* Linguist / Historian / Validator joined by asyncio.gather under one     *)
(* wait_for, the Repair Advisor, the closing summary) and the              *)
(* DeduplicationCache in front of the /resurrect/cached endpoint.          *)
(*                                                                         *)
(* The code runs on one asyncio event loop: a task runs without            *)
(* interruption from one suspension point (an awaited network call) to the *)
(* next.  Actions of the model are those blocks.                           *)
(*                                                                         *)
(* Confidences are kept in tenths of a percent (82.0% is 820) so that the  *)
(* weights 0.4 / 0.3 / 0.3 stay integral.                                  *)
(***************************************************************************)
EXTENDS Integers, Sequences, FiniteSets, TLC

\* ------------------------------------------------------------------ bounds
MaxTextLen == 1          \* tokens in a recognised text
MaxBudgetCalls == 1      \* the daily budget pays for at most this many calls
NumCallers == 2          \* concurrent HTTP requests to the caching endpoints
NumDocs == 2             \* distinct uploaded byte sequences
MaxFacts == 7            \* verified facts handed to the Validator
MaxWarnings == 11        \* warnings handed to the Validator

\* ------------------------------------------------------- program constants
EstimatedCost == 3            \* call_ernie_llm: estimated_cost = 0.003 (in mills)
OcrSuccessConfidence == 820   \* _call_paddleocr_vl: "confidence": 82.0
DefaultFinalConfidence == 700 \* context.get("final_confidence", 70)
HighThreshold == 800          \* final_conf >= 80
MediumThreshold == 600        \* final_conf >= 60
FallbackConfidence == 600     \* fallback AgentMessage(confidence=60)
NoConf == 0 - 1               \* confidence=None

\* ---------------------------------------------------------------- helpers
Min(a, b) == IF a < b THEN a ELSE b
Max(a, b) == IF a > b THEN a ELSE b
Abs(a) == IF a < 0 THEN 0 - a ELSE a
Range(s) == {s[i] : i \in DOMAIN s}

\* dict[key] = value
Put(ctx, k, v) == [x \in (DOMAIN ctx) \cup {k} |-> IF x = k THEN v ELSE ctx[x]]
\* dict.get(key, default)
Get(ctx, k, d) == IF k \in DOMAIN ctx THEN ctx[k] ELSE d

\* the assignments kvs[1], kvs[2], ... made in this order (the last one of a
\* key wins)
PutAll(ctx, kvs) ==
    [x \in (DOMAIN ctx) \cup {kvs[i][1] : i \in DOMAIN kvs} |->
        IF \E i \in DOMAIN kvs : kvs[i][1] = x
        THEN kvs[CHOOSE i \in DOMAIN kvs :
                    /\ kvs[i][1] = x
                    /\ \A j \in DOMAIN kvs : kvs[j][1] = x => j <= i][2]
        ELSE ctx[x]]

\* the assignments of kvs as entries of the write log
LogOf(kvs, by) == [i \in 1..Len(kvs) |-> [key |-> kvs[i][1], by |-> by]]

\* ------------------------------------------------------------------ texts
\* A text is a sequence of tokens; a token is one character or one word.
\* "a" is a plain letter, DokeChar is the Doke letter for the voiceless
\* whistling fricative (one character, rewritten to the digraph "sv"),
\* "kraal" is a colonial-era term of LinguistAgent.HISTORICAL_TERMS and
\* "Rudd 1888" names a key figure of the Historian together with a year.
DokeChar == "s_whistling"
Alphabet == {"a", DokeChar, "kraal", "Rudd 1888"}

TokenLen(t) ==
    CASE t = "a" -> 1
      [] t = DokeChar -> 1
      [] t = "sv" -> 2
      [] t = "kraal" -> 5
      [] t = "Rudd 1888" -> 9

Count(text, t) == Cardinality({i \in DOMAIN text : text[i] = t})

\* len(text): the lengths of its tokens added up
TextLen(text) ==
    Count(text, "a") * TokenLen("a") + Count(text, DokeChar) * TokenLen(DokeChar)
    + Count(text, "sv") * TokenLen("sv") + Count(text, "kraal") * TokenLen("kraal")
    + Count(text, "Rudd 1888") * TokenLen("Rudd 1888")

Texts == UNION {[1..n -> Alphabet] : n \in 0..MaxTextLen}

VARIABLES
    apiKey,          \* NOVITA_AI_API_KEY is configured
    today_spend,     \* api_tracker.today_spend (mills)
    daily_budget,    \* api_tracker.daily_budget_usd (mills)
    phase,           \* position of SwarmOrchestrator.resurrect
    context,         \* the shared context dict of the run
    ctxLog,          \* history: every assignment to a context key, in order
    agentMsgs,       \* agent.messages of the five agents
    pc,              \* position of each task of the parallel group
    historian_text,  \* HistorianAgent.process: local text, read before its await
    validator_self,  \* ValidatorAgent: warnings, corrections
    inconsistencyChecks, \* history: runs of _detect_inconsistencies
    parallel_results,\* what wait_for(gather(...)) handed back
    groupTimedOut,   \* the except asyncio.TimeoutError branch ran
    repair,          \* position of the Repair Advisor and how it ended
    stream,          \* messages yielded by resurrect, in order
    clock,           \* source of message timestamps
    final_context,   \* self.final_context
    result,          \* what get_result returned to the caller
    error,           \* exception raised to the caller of resurrect
    cache,           \* dedup_cache._cache
    cache_hits,      \* dedup_cache._cache_hits
    cache_misses,    \* dedup_cache._cache_misses
    req,             \* the requests to /resurrect/cached in flight
    llm_call,        \* call_ernie_llm: the user_input it was given and what it sent
    sse              \* event_generator of /resurrect/stream: position and events

vars == <<apiKey, today_spend, daily_budget, phase, context, ctxLog, agentMsgs,
          pc, historian_text, validator_self, inconsistencyChecks,
          parallel_results, groupTimedOut, repair, stream, clock,
          final_context, result, error, cache, cache_hits, cache_misses, req,
          llm_call, sse>>

runVars == <<apiKey, today_spend, daily_budget, phase, context, ctxLog, agentMsgs,
             pc, historian_text, validator_self, inconsistencyChecks,
             parallel_results, groupTimedOut, repair, stream, clock,
             final_context, result, error>>

cacheVars == <<cache, cache_hits, cache_misses, req>>

edgeVars == <<llm_call, sse>>

NoCall == [state |-> "idle", user_input |-> <<>>, sent |-> <<>>]
NoEvents == [pc |-> "idle", events |-> <<>>, pending |-> 0, raises |-> FALSE]

Agents == <<"scanner", "linguist", "historian", "validator", "repair_advisor">>
ParallelStages == <<"linguist", "historian", "validator">>
StageSet == Range(ParallelStages)
Images == {"empty", "corrupt", "clean", "skewed"}

\* AgentMessage; src is who created it (a stage, or the coordinator)
Msg(agent, src, kind, conf, debate, ts) ==
    [agent |-> agent, src |-> src, kind |-> kind, confidence |-> conf,
     is_debate |-> debate, timestamp |-> ts]

\* BaseAgent.emit for a list of <<kind, confidence, is_debate>>, one timestamp each
Emit(agent, protos, t0) ==
    [i \in 1..Len(protos) |->
        Msg(agent, agent, protos[i][1], protos[i][2], protos[i][3], t0 + i - 1)]

\* ---------------------------------------------------------------- Scanner
\* What the measurements of _analyze_document_type find in an image: skew in
\* tenths of a degree, the four-corner contour, the yellow and the shadow
\* tests, the Laplacian variance of the grey image, the background.
SkewFlagThreshold == 5
SkewCorrectThreshold == 10
FadedBelow == 100
ModerateBlurBelow == 300
SlightBlurBelow == 500
NoiseThreshold == 2000

ImageProfile(img) ==
    [skew |-> IF img = "skewed" THEN 35 ELSE 0, perspective |-> FALSE,
     yellowed |-> FALSE, shadows |-> FALSE, laplacian |-> 1000,
     background |-> IF img = "skewed" THEN "textured" ELSE "uniform"]

\* ScannerAgent._analyze_document_type
AnalyzeDocumentType(p) ==
    LET is_faded == p.laplacian < FadedBelow
        blur == IF p.laplacian < FadedBelow THEN "high"
                ELSE IF p.laplacian < ModerateBlurBelow THEN "moderate"
                ELSE IF p.laplacian < SlightBlurBelow THEN "slight"
                ELSE "none"
    IN  [type |-> IF p.background = "uniform" THEN "scan"
                  ELSE IF p.perspective \/ p.background = "textured"
                       THEN "photograph"
                  ELSE "digital",
         quality_issues |->
             (IF Abs(p.skew) > SkewFlagThreshold THEN <<"Document skew">> ELSE <<>>)
             \o (IF p.perspective THEN <<"Perspective distortion detected">> ELSE <<>>)
             \o (IF p.yellowed THEN <<"Paper yellowing">> ELSE <<>>)
             \o (IF p.shadows THEN <<"Uneven lighting/shadows">> ELSE <<>>)
             \o (IF blur = "high" THEN <<"Significant blur/fading">>
                 ELSE IF blur = "moderate" THEN <<"Moderate blur">> ELSE <<>>),
         skew_angle |-> IF Abs(p.skew) > SkewFlagThreshold THEN p.skew ELSE 0,
         has_perspective |-> p.perspective,
         is_yellowed |-> p.yellowed,
         has_shadows |-> p.shadows,
         is_faded |-> is_faded,
         blur_level |-> blur]

\* steps 1 to 6 of _enhance_image: the operators applied to the image and
\* the entries recorded for them, in order (main.py 856-895)
FlaggedSteps(doc_analysis) ==
    (IF doc_analysis.has_perspective
     THEN <<[op |-> "correct_perspective", entry |-> "Perspective corrected (4-point transform)"]>>
     ELSE <<>>)
    \o (IF Abs(doc_analysis.skew_angle) > SkewCorrectThreshold
        THEN <<[op |-> "correct_skew", entry |-> "Skew corrected"]>> ELSE <<>>)
    \o (IF doc_analysis.has_shadows
        THEN <<[op |-> "remove_shadows", entry |-> "Shadows removed (CLAHE)"]>> ELSE <<>>)
    \o (IF doc_analysis.is_yellowed
        THEN <<[op |-> "fix_yellowing", entry |-> "Yellowing corrected (LAB color balance)"]>>
        ELSE <<>>)
    \o (IF doc_analysis.is_faded
        THEN <<[op |-> "enhance_contrast", entry |-> "Faded text restored (CLAHE)"]>>
        ELSE <<>>)
    \o (IF doc_analysis.blur_level \in {"high", "moderate"}
        THEN <<[op |-> "sharpen_image", entry |-> "Sharpness enhanced"]>> ELSE <<>>)

MinimalMarker == "Image quality good - minimal processing"

\* ScannerAgent._enhance_image on an image of profile p. noise_after is the
\* Laplacian variance of the image once steps 1 to 6 changed it; an image no
\* step touched still has the variance the analysis measured. The enhanced
\* image is named by the operators applied to it.
\* the marker appended whatever ran
EnhanceImageAlwaysMarks(doc_analysis, p, noise_after) ==
    LET steps == FlaggedSteps(doc_analysis)
        noise_level == IF steps = <<>> THEN p.laplacian ELSE noise_after
        all == IF noise_level > NoiseThreshold
               THEN Append(steps, [op |-> "denoise_image",
                                   entry |-> "Noise reduction (NLM denoising)"])
               ELSE steps
    IN  [ops |-> [i \in 1..Len(all) |-> all[i].op],
         enhancements |-> Append([i \in 1..Len(all) |-> all[i].entry], MinimalMarker)]

EnhanceImage(doc_analysis, p, noise_after) ==
    LET steps == FlaggedSteps(doc_analysis)
        noise_level == IF steps = <<>> THEN p.laplacian ELSE noise_after
        all == IF noise_level > NoiseThreshold
               THEN Append(steps, [op |-> "denoise_image",
                                   entry |-> "Noise reduction (NLM denoising)"])
               ELSE steps
        enhanced == all # <<>>
    IN  [ops |-> [i \in 1..Len(all) |-> all[i].op],
         enhancements |-> [i \in 1..Len(all) |-> all[i].entry]
                              \o (IF ~enhanced THEN <<MinimalMarker>> ELSE <<>>)]

\* ScannerAgent.process from Image.open to the "Applied" message: the
\* messages it emits and the context keys it writes (main.py 1241-1274)
ScannerEnhancement(p, noise_after) ==
    LET analysis == AnalyzeDocumentType(p)
        enh == EnhanceImage(analysis, p, noise_after)
    IN  [protos |-> <<IF analysis.quality_issues # <<>>
                      THEN <<"issues", 700, FALSE>>
                      ELSE <<"decent", 800, FALSE>>>>
                    \o (IF enh.enhancements # <<>>
                        THEN <<<<"applied", 750, FALSE>>>> ELSE <<>>),
         kvs |-> << <<"document_analysis", analysis>>,
                    <<"layout_analysis", "layout">>,
                    <<"enhancements_applied", enh.enhancements>>,
                    <<"enhanced_image_base64", enh.ops>> >>]

\* ScannerAgent.process up to the call of _call_paddleocr_vl:
\* the messages it emits and the context keys it writes
ScannerAnalysis(img) ==
    LET e == ScannerEnhancement(ImageProfile(img), ImageProfile(img).laplacian)
    IN  IF img = "empty" THEN
            [protos |-> <<<<"opening", NoConf, FALSE>>>>, kvs |-> <<>>]
        ELSE IF img = "corrupt" THEN
            [protos |-> <<<<"opening", NoConf, FALSE>>, <<"snag", 500, FALSE>>>>,
             kvs |-> <<>>]
        ELSE
            [protos |-> <<<<"opening", NoConf, FALSE>>>> \o e.protos, kvs |-> e.kvs]

NoRequests ==
    [c \in 1..NumCallers |->
        [pc |-> "idle", endpoint |-> "", doc |-> 0, consulted |-> FALSE,
         hit |-> FALSE, returned |-> <<>>]]

BudgetChoices == {k * EstimatedCost : k \in 0..MaxBudgetCalls}

Init ==
    /\ apiKey \in BOOLEAN
    /\ today_spend = 0
    /\ daily_budget \in BudgetChoices
    /\ phase = "NotStarted"
    /\ context = <<>>
    /\ ctxLog = <<>>
    /\ agentMsgs = [a \in Range(Agents) |-> <<>>]
    /\ pc = [s \in StageSet |-> "idle"]
    /\ historian_text = <<>>
    /\ validator_self = [warnings |-> <<>>, corrections |-> <<>>]
    /\ inconsistencyChecks = <<>>
    /\ parallel_results = <<>>
    /\ groupTimedOut = FALSE
    /\ repair = [pc |-> "idle", outcome |-> "none"]
    /\ stream = <<>>
    /\ clock = 0
    /\ final_context = [set |-> FALSE, ctx |-> <<>>]
    /\ result = [produced |-> FALSE]
    /\ error = "none"
    /\ cache = <<>>
    /\ cache_hits = 0
    /\ cache_misses = 0
    /\ req = NoRequests
    /\ llm_call = NoCall
    /\ sse = NoEvents

\* a start that rejects bytes it cannot decode instead of trying the
\* recognition on them
StartRejectsUndecodable(img) ==
    /\ phase = "NotStarted"
    /\ LET a == ScannerAnalysis(img)
           msgs == Emit("scanner", a.protos, clock + 1)
           kvs0 == << <<"image_data", img>>, <<"start_time", clock>>,
                      <<"agent_findings", <<>> >> >>
       IN  /\ context' = PutAll(PutAll(<<>>, kvs0), a.kvs)
           /\ ctxLog' = LogOf(kvs0, "coordinator") \o LogOf(a.kvs, "scanner")
           /\ agentMsgs' = [agentMsgs EXCEPT !["scanner"] = msgs]
           /\ stream' = msgs
           /\ clock' = clock + Len(msgs) + 1
    /\ phase' = IF img = "corrupt" THEN "Errored" ELSE "ScannerRunning"
    /\ error' = IF img = "corrupt" THEN "MalformedInputError" ELSE error
    /\ UNCHANGED <<apiKey, today_spend, daily_budget, pc, historian_text,
                   validator_self, inconsistencyChecks, parallel_results,
                   groupTimedOut, repair, final_context, result>>
    /\ UNCHANGED <<cacheVars, edgeVars>>

\* resurrect is called: the context is created and the Scanner runs up to
\* its recognition call (main.py 2373-2381, 1230-1283)
Start(img) ==
    /\ phase = "NotStarted"
    /\ LET a == ScannerAnalysis(img)
           msgs == Emit("scanner", a.protos, clock + 1)
           kvs0 == << <<"image_data", img>>, <<"start_time", clock>>,
                      <<"agent_findings", <<>> >> >>
       IN  /\ context' = PutAll(PutAll(<<>>, kvs0), a.kvs)
           /\ ctxLog' = LogOf(kvs0, "coordinator") \o LogOf(a.kvs, "scanner")
           /\ agentMsgs' = [agentMsgs EXCEPT !["scanner"] = msgs]
           /\ stream' = msgs
           /\ clock' = clock + Len(msgs) + 1
    /\ phase' = "ScannerRunning"
    /\ UNCHANGED <<apiKey, today_spend, daily_budget, pc, historian_text,
                   validator_self, inconsistencyChecks, parallel_results,
                   groupTimedOut, repair, final_context, result, error>>
    /\ UNCHANGED <<cacheVars, edgeVars>>

\* ScannerOcrReturn as it would be without the raise after the failure message
ScannerOcrReturnNoRaise(ok, text) ==
    /\ phase = "ScannerRunning"
    /\ ok => (apiKey /\ context["image_data"] # "empty")
    /\ LET m == Emit("scanner", <<<<IF ok THEN "extracted" ELSE "ocr_failed",
                                   IF ok THEN OcrSuccessConfidence ELSE 0, FALSE>>>>, clock)
           t == IF ok THEN text ELSE <<>>
           kvs == << <<"raw_text", t>>,
                     <<"ocr_confidence", IF ok THEN OcrSuccessConfidence ELSE 0>> >>
           c1 == PutAll(context, kvs)
       IN  /\ context' = Put(c1, "agent_findings",
                             Put(c1["agent_findings"], "scanner",
                                 [confidence |-> c1["ocr_confidence"],
                                  text_length |-> TextLen(t)]))
           /\ ctxLog' = ctxLog \o LogOf(kvs, "scanner")
                          \o <<[key |-> "agent_findings.scanner", by |-> "coordinator"]>>
           /\ agentMsgs' = [agentMsgs EXCEPT !["scanner"] = @ \o m]
           /\ stream' = stream \o m
    /\ phase' = "ParallelGroupRunning"
    /\ pc' = [s \in StageSet |-> "ready"]
    /\ clock' = clock + 1
    /\ UNCHANGED <<apiKey, today_spend, daily_budget, historian_text,
                   validator_self, inconsistencyChecks, parallel_results,
                   groupTimedOut, repair, final_context, result, error>>
    /\ UNCHANGED <<cacheVars, edgeVars>>

\* _call_paddleocr_vl returns and the Scanner finishes; on success the
\* coordinator stores the scanner findings and creates the three tasks
\* (main.py 1283-1303, 1305-1414, 2383-2417)
ScannerOcrReturn(ok, text) ==
    /\ phase = "ScannerRunning"
    /\ ok => (apiKey /\ context["image_data"] # "empty")
    /\ IF ok THEN
          LET m == Emit("scanner", <<<<"extracted", OcrSuccessConfidence, FALSE>>>>, clock)
              kvs == << <<"raw_text", text>>, <<"ocr_confidence", OcrSuccessConfidence>> >>
              c1 == PutAll(context, kvs)
              findings == [confidence |-> OcrSuccessConfidence, text_length |-> TextLen(text)]
          IN  /\ context' = Put(c1, "agent_findings",
                                Put(c1["agent_findings"], "scanner", findings))
              /\ ctxLog' = ctxLog \o LogOf(kvs, "scanner")
                             \o <<[key |-> "agent_findings.scanner", by |-> "coordinator"]>>
              /\ agentMsgs' = [agentMsgs EXCEPT !["scanner"] = @ \o m]
              /\ stream' = stream \o m
              /\ phase' = "ParallelGroupRunning"
              /\ pc' = [s \in StageSet |-> "ready"]
              /\ error' = error
       ELSE
          LET m == Emit("scanner", <<<<"ocr_failed", 0, FALSE>>>>, clock)
          IN  /\ agentMsgs' = [agentMsgs EXCEPT !["scanner"] = @ \o m]
              /\ stream' = stream \o m
              /\ phase' = "Errored"
              /\ error' = "PaddleOCR-VL API failed"
              /\ UNCHANGED <<context, ctxLog, pc>>
    /\ clock' = clock + 1
    /\ UNCHANGED <<apiKey, today_spend, daily_budget, historian_text,
                   validator_self, inconsistencyChecks, parallel_results,
                   groupTimedOut, repair, final_context, result>>
    /\ UNCHANGED <<cacheVars, edgeVars>>

\* ------------------------------------------------------- language service
\* APIUsageTracker.can_spend (the day rollover is outside one run)
CanSpend(spend, budget) == spend + EstimatedCost <= budget

\* call_ernie_llm goes to the network (and suspends its task) only with an
\* API key and budget left; otherwise it returns None on the spot
LlmCallSuspends == apiKey /\ CanSpend(today_spend, daily_budget)

\* what call_ernie_llm can hand back: "none" is None (HTTP error, timeout,
\* exception); anything else is the text of a 200 response
LinguistResponses == {"none", "insight"}
HistorianResponses == {"none", "insight"}
ValidatorResponses == {"none", "good", "fair", "poor", "insight"}
RepairResponses == {"none", "plain", "json_hotspots", "json_invalid", "json_badtype"}

\* APIUsageTracker.record runs only for a 200 response
SpendAfter(spend, resp) == IF resp = "none" THEN spend ELSE spend + EstimatedCost

\* --------------------------------------------------------------- Linguist
TRANSLITERATION_MAP == [d \in {DokeChar} |-> "sv"]
HISTORICAL_TERMS == {"kraal"}
CULTURAL_MARKERS == {"Lobengula", "Nehanda", "Hut Tax", "Musha"}
TraditionalNames == {"Lobengula", "Nehanda"}

\* LinguistAgent._transliterate
Transliterate(text) ==
    [result |-> [i \in DOMAIN text |->
                    IF text[i] \in DOMAIN TRANSLITERATION_MAP
                    THEN TRANSLITERATION_MAP[text[i]] ELSE text[i]],
     changes |-> {d \in DOMAIN TRANSLITERATION_MAP : d \in Range(text)}]

\* LinguistAgent._find_historical_terms (it returns a list)
FindHistoricalTerms(text) == {t \in HISTORICAL_TERMS : t \in Range(text)}

\* LinguistAgent._detect_cultural_markers
DetectCulturalMarkers(text) == {m \in CULTURAL_MARKERS : m \in Range(text)}

\* LinguistAgent._calculate_cultural_significance
CalculateCulturalSignificance(markers) ==
    Min(30 + 12 * Cardinality(markers)
           + 15 * Cardinality(markers \cap TraditionalNames), 100)

\* LinguistAgent.process after its language-service call.  With terms found
\* it calls .keys() on the list of terms and raises; nothing is written then.
LinguistBody(ctx, ai) ==
    LET raw_text == Get(ctx, "raw_text", <<>>)
        tr == Transliterate(raw_text)
        terms == FindHistoricalTerms(raw_text)
        markers == DetectCulturalMarkers(raw_text)
        signif == CalculateCulturalSignificance(markers)
        p1 == IF ai # "none" THEN <<<<"ai_insight", 800, TRUE>>>> ELSE <<>>
        p2 == IF tr.changes # {} THEN <<<<"doke_found", 850, FALSE>>>> ELSE <<>>
        p3 == IF markers # {} /\ signif > 50 THEN <<<<"significance", 880, FALSE>>>>
              ELSE IF tr.changes = {} /\ terms = {} THEN <<<<"modern_script", 850, FALSE>>>>
              ELSE <<>>
    IN  IF terms # {} THEN
            [protos |-> p1 \o p2, raised |-> TRUE, kvs |-> <<>>]
        ELSE
            [protos |-> p1 \o p2 \o p3, raised |-> FALSE,
             kvs |-> << <<"transliterated_text", tr.result>>,
                        <<"linguistic_changes", tr.changes>>,
                        <<"historical_terms", terms>>,
                        <<"cultural_insights", IF ai # "none" THEN <<ai>> ELSE <<>> >>,
                        <<"cultural_significance", signif>> >>]

\* -------------------------------------------------------------- Historian
KEY_FIGURES == {"Rudd"}

\* HistorianAgent._detect_figures
DetectFigures(text) == {f \in KEY_FIGURES : f = "Rudd" /\ "Rudd 1888" \in Range(text)}

\* HistorianAgent._extract_dates
ExtractDates(text) == IF "Rudd 1888" \in Range(text) THEN <<"1888">> ELSE <<>>

\* HistorianAgent._verify_historical_context: the messages of its results
VerifyHistoricalContext(figures, dates) ==
    (IF "Rudd" \in figures /\ "Lobengula" \in figures THEN <<"rudd_lobengula">> ELSE <<>>)
    \o (IF "Jameson" \in figures \/ "Colquhoun" \in figures THEN <<"bsac">> ELSE <<>>)
    \o [i \in 1..Len(dates) |-> "date_consistent"]

\* HistorianAgent.process after its language-service call; text is the
\* local it read before the call
\* a Historian that also stores the text it read as the normalized text
HistorianBodyWritesNormalized(text, ai) ==
    [protos |-> <<<<"handoff", 870, FALSE>>>>, raised |-> FALSE,
     kvs |-> << <<"historian_findings", <<>> >>,
                <<"verified_facts", <<>> >>,
                <<"historical_anomalies", <<>> >>,
                <<"transliterated_text", text>> >>]

HistorianBody(text, ai) ==
    LET figures == DetectFigures(text)
        dates == ExtractDates(text)
        verifications == VerifyHistoricalContext(figures, dates)
        rudd == "Rudd 1888" \in Range(text) /\ \E i \in DOMAIN dates : dates[i] = "1888"
        p1 == IF ai # "none" THEN <<<<"ai_insight", 900, TRUE>>>> ELSE <<>>
        p2 == IF figures # {} THEN <<<<"key_figure", 880, TRUE>>>> ELSE <<>>
        p3 == IF dates # <<>> THEN <<<<"dates", 850, FALSE>>>> ELSE <<>>
        p4 == IF verifications # <<>> THEN <<<<verifications[1], 880, TRUE>>>> ELSE <<>>
        p5 == IF rudd THEN <<<<"rudd_concession", 920, TRUE>>>> ELSE <<>>
        facts == (IF ai # "none" THEN <<"AI">> ELSE <<>>)
                 \o (IF "Rudd" \in figures /\ "Lobengula" \in figures
                     THEN <<"Rudd-Lobengula treaty context">> ELSE <<>>)
                 \o (IF rudd THEN <<"Rudd Concession reference verified">> ELSE <<>>)
        findings == IF figures # {} THEN <<"Rudd">> ELSE <<>>
    IN  [protos |-> p1 \o p2 \o p3 \o p4 \o p5 \o <<<<"handoff", 870, FALSE>>>>,
         raised |-> FALSE,
         kvs |-> << <<"historian_findings", findings>>,
                    <<"verified_facts", facts>>,
                    <<"historical_anomalies", <<>> >> >>]

\* -------------------------------------------------------------- Validator
\* a detection that already reports a change of exactly 30%
DetectInconsistenciesFromThirty(ctx) ==
    LET raw == Get(ctx, "raw_text", <<>>)
        trans == Get(ctx, "transliterated_text", <<>>)
    IN  IF raw # <<>> /\ trans # <<>>
           /\ 10 * Abs(TextLen(raw) - TextLen(trans)) >= 3 * Max(TextLen(raw), 1)
        THEN <<"Text length changed">> ELSE <<>>

\* ValidatorAgent._detect_inconsistencies: len_diff > 0.3
DetectInconsistencies(ctx) ==
    LET raw == Get(ctx, "raw_text", <<>>)
        trans == Get(ctx, "transliterated_text", <<>>)
    IN  IF raw # <<>> /\ trans # <<>>
           /\ 10 * Abs(TextLen(raw) - TextLen(trans)) > 3 * Max(TextLen(raw), 1)
        THEN <<"Text length changed">> ELSE <<>>

\* the weighted sum without the two clamps
CalculateFinalConfidenceUnclamped(ctx, self_warnings) ==
    LET ocr_conf == Get(ctx, "ocr_confidence", 700)
        verified == Len(Get(ctx, "verified_facts", <<>>))
        hist_score == Min(verified * 150, 1000)
        warnings == Len(Get(ctx, "validator_warnings", self_warnings))
        warning_penalty == Max(0, 1000 - warnings * 100)
    IN  (4 * ocr_conf + 3 * hist_score + 3 * warning_penalty) \div 10

\* the weighted sum with a penalty score that ignores the warnings
CalculateFinalConfidenceNoPenalty(ctx, self_warnings) ==
    LET ocr_conf == Max(0, Min(1000, Get(ctx, "ocr_confidence", 700)))
        verified == Len(Get(ctx, "verified_facts", <<>>))
        hist_score == Min(verified * 150, 1000)
        final_score == (4 * ocr_conf + 3 * hist_score + 3 * 1000) \div 10
    IN  Max(0, Min(1000, final_score))

\* ValidatorAgent._calculate_final_confidence
CalculateFinalConfidence(ctx, self_warnings) ==
    LET ocr_conf == Max(0, Min(1000, Get(ctx, "ocr_confidence", 700)))
        verified == Len(Get(ctx, "verified_facts", <<>>))
        hist_score == Min(verified * 150, 1000)
        warnings == Len(Get(ctx, "validator_warnings", self_warnings))
        warning_penalty == Max(0, 1000 - warnings * 100)
        final_score == (4 * ocr_conf + 3 * hist_score + 3 * warning_penalty) \div 10
    IN  Max(0, Min(1000, final_score))

\* ValidatorAgent.process after its language-service call
ValidatorBody(ctx, ai, vself) ==
    LET p1 == IF ai # "none" THEN <<<<"ai_validation", 850, TRUE>>>> ELSE <<>>
        corr1 == IF ai = "good" THEN vself.corrections \o <<"AI: Quality Good">>
                 ELSE vself.corrections
        warn1 == IF ai = "fair" THEN vself.warnings \o <<"AI: Quality Fair">>
                 ELSE IF ai = "poor" THEN vself.warnings \o <<"AI: Quality Poor">>
                 ELSE vself.warnings
        inc == DetectInconsistencies(ctx)
        p2 == IF inc # <<>> THEN <<<<"inconsistency", NoConf, TRUE>>>> ELSE <<>>
        warn2 == IF inc # <<>> THEN warn1 \o <<inc[1]>> ELSE warn1
        fc == CalculateFinalConfidence(ctx, warn2)
        p3 == IF fc >= HighThreshold THEN <<<<"high", fc, FALSE>>>>
              ELSE IF fc >= MediumThreshold THEN <<<<"medium", fc, FALSE>>>>
              ELSE <<<<"low", fc, FALSE>>>>
    IN  [protos |-> p1 \o p2 \o p3, raised |-> FALSE,
         kvs |-> << <<"final_confidence", fc>>,
                    <<"validator_warnings", warn2>>,
                    <<"validator_corrections", corr1>> >>,
         vself |-> [warnings |-> warn2, corrections |-> corr1],
         inconsistencies |-> inc]

\* agent.process after the await, for the task of stage s
StageBody(s, ctx, ai, htext, vself) ==
    IF s = "linguist" THEN LinguistBody(ctx, ai)
    ELSE IF s = "historian" THEN HistorianBody(htext, ai)
    ELSE ValidatorBody(ctx, ai, vself)

StageResponses(s) ==
    IF s = "linguist" THEN LinguistResponses
    ELSE IF s = "historian" THEN HistorianResponses
    ELSE ValidatorResponses

\* ---------------------------------------------------- the parallel group
\* a prologue that also resets the recognition confidence
StagePrologueResetsConfidence(ctx) ==
    << <<"previous_agent", "Scanner">>,
       <<"previous_findings", TextLen(Get(ctx, "raw_text", <<>>))>>,
       <<"ocr_confidence", 0>> >>

\* run_agent_with_context first writes two keys on behalf of its stage
StagePrologue(ctx) ==
    << <<"previous_agent", "Scanner">>,
       <<"previous_findings", TextLen(Get(ctx, "raw_text", <<>>))>> >>

\* text = context.get("transliterated_text") or context.get("raw_text", "")
HistorianReadText(ctx) ==
    LET t == Get(ctx, "transliterated_text", <<>>)
    IN  IF t # <<>> THEN t ELSE Get(ctx, "raw_text", <<>>)

\* the task of stage s runs agent.process from after its language-service
\* call to its end: messages, then (unless it raised) its context keys
FinishStage(s, ctx, log, before, ai, htext) ==
    LET b == StageBody(s, ctx, ai, htext, validator_self)
        msgs == Emit(s, before \o b.protos, clock)
    IN  /\ context' = PutAll(ctx, b.kvs)
        /\ ctxLog' = log \o LogOf(b.kvs, s)
        /\ agentMsgs' = [agentMsgs EXCEPT ![s] = @ \o msgs]
        /\ clock' = clock + Len(msgs)
        /\ pc' = [pc EXCEPT ![s] = IF b.raised THEN "raised" ELSE "done"]
        /\ IF s = "validator"
           THEN /\ validator_self' = b.vself
                /\ inconsistencyChecks' = Append(inconsistencyChecks,
                       [phase |-> phase,
                        linguist |-> pc["linguist"],
                        historian |-> pc["historian"],
                        normalized |-> "transliterated_text" \in DOMAIN ctx,
                        found |-> b.inconsistencies # <<>>])
           ELSE UNCHANGED <<validator_self, inconsistencyChecks>>

\* tasks created by gather start in argument order (FIFO ready queue)
EarlierStarted(s) ==
    \A i, j \in DOMAIN ParallelStages :
        (ParallelStages[j] = s /\ i < j) => pc[ParallelStages[i]] # "ready"

\* the task of stage s is next in the ready queue
StageStartGuard(s) ==
    /\ phase = "ParallelGroupRunning"
    /\ pc[s] = "ready"
    /\ EarlierStarted(s)

\* the task of stage s starts: run_agent_with_context up to the await inside
\* call_ernie_llm, or to the end of the stage when that call does not suspend
\* (main.py 2394-2404 with 1506-1514, 1712-1720, 1862-1875)
StageStart(s) ==
    /\ StageStartGuard(s)
    /\ LET kvs0 == StagePrologue(context)
           ctx1 == PutAll(context, kvs0)
           log1 == ctxLog \o LogOf(kvs0, s)
           htext == IF s = "historian" THEN HistorianReadText(ctx1) ELSE historian_text
           opening == <<<<"opening", NoConf, FALSE>>>>
       IN  /\ historian_text' = htext
           /\ IF LlmCallSuspends THEN
                 /\ context' = ctx1
                 /\ ctxLog' = log1
                 /\ agentMsgs' = [agentMsgs EXCEPT ![s] = @ \o Emit(s, opening, clock)]
                 /\ clock' = clock + 1
                 /\ pc' = [pc EXCEPT ![s] = "awaiting"]
                 /\ UNCHANGED <<validator_self, inconsistencyChecks>>
              ELSE FinishStage(s, ctx1, log1, opening, "none", htext)
    /\ UNCHANGED <<apiKey, today_spend, daily_budget, phase, parallel_results,
                   groupTimedOut, repair, stream, final_context, result, error>>
    /\ UNCHANGED <<cacheVars, edgeVars>>

\* a return that sends a stage whose call failed back to issue it again
StageLLMReturnRetries(s, resp) ==
    /\ pc[s] = "awaiting"
    /\ resp \in StageResponses(s)
    /\ IF resp = "none" THEN
          /\ pc' = [pc EXCEPT ![s] = "ready"]
          /\ UNCHANGED <<today_spend, context, ctxLog, agentMsgs, clock,
                         validator_self, inconsistencyChecks>>
       ELSE
          /\ today_spend' = SpendAfter(today_spend, resp)
          /\ FinishStage(s, context, ctxLog, <<>>, resp, historian_text)
    /\ UNCHANGED <<apiKey, daily_budget, phase, historian_text, parallel_results,
                   groupTimedOut, repair, stream, final_context, result, error>>
    /\ UNCHANGED <<cacheVars, edgeVars>>

\* the language-service call of stage s returns and the stage runs to its end
\* (main.py 1514-1545, 1720-1756, 1875-1907; call_ernie_llm 287-330)
StageLLMReturn(s, resp) ==
    /\ pc[s] = "awaiting"
    /\ resp \in StageResponses(s)
    /\ today_spend' = SpendAfter(today_spend, resp)
    /\ FinishStage(s, context, ctxLog, <<>>, resp, historian_text)
    /\ UNCHANGED <<apiKey, daily_budget, phase, historian_text, parallel_results,
                   groupTimedOut, repair, stream, final_context, result, error>>
    /\ UNCHANGED <<cacheVars, edgeVars>>

\* list.sort(key=lambda m: m.timestamp): a stable sort; the message at
\* position i goes to position Rank(msgs, i)
Rank(msgs, i) ==
    Cardinality({j \in DOMAIN msgs :
                    \/ msgs[j].timestamp < msgs[i].timestamp
                    \/ msgs[j].timestamp = msgs[i].timestamp /\ j <= i})

SortByTimestamp(msgs) ==
    [k \in DOMAIN msgs |-> msgs[CHOOSE i \in DOMAIN msgs : Rank(msgs, i) = k]]

\* the messages of result i if it is a (name, messages) tuple
TupleMessages(results, i) ==
    IF i \in DOMAIN results /\ results[i].is_tuple THEN results[i].messages ELSE <<>>

\* all_messages: the messages of the results that are tuples, in result order
CollectMessages(results) ==
    TupleMessages(results, 1) \o TupleMessages(results, 2) \o TupleMessages(results, 3)

\* msg.is_debate = True where the agent differs from the previous message's
MarkDebate(msgs) ==
    [i \in DOMAIN msgs |->
        IF i > 1 /\ msgs[i].agent # msgs[i - 1].agent
        THEN [msgs[i] EXCEPT !.is_debate = TRUE] ELSE msgs[i]]

\* the same message objects sit in agent.messages
MarkShared(own, marked) ==
    [i \in DOMAIN own |->
        IF \E j \in DOMAIN marked : marked[j].timestamp = own[i].timestamp
        THEN (CHOOSE m \in Range(marked) : m.timestamp = own[i].timestamp)
        ELSE own[i]]

LastKind(msgs) == IF msgs # <<>> THEN msgs[Len(msgs)].kind ELSE ""

\* the coordinator resumes after wait_for: it yields the collected messages
\* and stores the findings of the parallel agents (main.py 2422-2453)
AfterGather(results, pcAfter) ==
    LET all_messages == MarkDebate(SortByTimestamp(CollectMessages(results)))
        marked == [a \in Range(Agents) |-> MarkShared(agentMsgs[a], all_messages)]
        raw == Get(context, "raw_text", <<>>)
        findings ==
            [x \in {"linguist", "historian", "validator"} |->
                IF x = "linguist" THEN
                    [confidence |-> IF pcAfter["linguist"] \in {"done", "raised"}
                                    THEN CalculateCulturalSignificance(DetectCulturalMarkers(raw))
                                    ELSE 0,
                     key_findings |-> LastKind(agentMsgs["linguist"])]
                ELSE IF x = "historian" THEN
                    [confidence |-> 700, key_findings |-> LastKind(agentMsgs["historian"])]
                ELSE
                    [confidence |-> Get(context, "final_confidence", DefaultFinalConfidence),
                     key_findings |-> LastKind(agentMsgs["validator"])]]
        af == context["agent_findings"]
        af1 == Put(Put(Put(af, "linguist", findings["linguist"]),
                       "historian", findings["historian"]),
                   "validator", findings["validator"])
    IN  /\ parallel_results' = results
        /\ stream' = stream \o all_messages
        /\ agentMsgs' = marked
        /\ context' = Put(context, "agent_findings", af1)
        /\ ctxLog' = ctxLog \o <<[key |-> "agent_findings.linguist", by |-> "coordinator"],
                                 [key |-> "agent_findings.historian", by |-> "coordinator"],
                                 [key |-> "agent_findings.validator", by |-> "coordinator"]>>
        /\ phase' = "BarrierReached"

\* every task of the gather has returned or raised
GatherReturnGuard ==
    /\ phase = "ParallelGroupRunning"
    /\ \A s \in StageSet : pc[s] \in {"done", "raised"}

\* the 60 s of wait_for can run out: every task has started, one is suspended
GroupTimeoutGuard ==
    /\ phase = "ParallelGroupRunning"
    /\ \A s \in StageSet : pc[s] # "ready"
    /\ \E s \in StageSet : pc[s] = "awaiting"

\* GatherReturn as it would be with gather(...) lacking return_exceptions=True:
\* the first exception of a task propagates out of resurrect
GatherReturnPropagates ==
    /\ phase = "ParallelGroupRunning"
    /\ \A s \in StageSet : pc[s] \in {"done", "raised"}
    /\ IF \E s \in StageSet : pc[s] = "raised" THEN
          /\ phase' = "Errored"
          /\ error' = "stage failed"
          /\ UNCHANGED <<parallel_results, stream, agentMsgs, context, ctxLog>>
       ELSE
          /\ AfterGather([i \in DOMAIN ParallelStages |->
                            [is_tuple |-> TRUE,
                             agent_name |-> ParallelStages[i],
                             messages |-> agentMsgs[ParallelStages[i]]]], pc)
          /\ error' = error
    /\ UNCHANGED <<apiKey, today_spend, daily_budget, pc, historian_text,
                   validator_self, inconsistencyChecks, groupTimedOut, repair,
                   clock, final_context, result>>
    /\ UNCHANGED <<cacheVars, edgeVars>>

\* GatherReturn as it would be if the coordinator resumed at the first
\* finished task (asyncio.wait(..., return_when=FIRST_COMPLETED))
GatherReturnFirstCompleted ==
    /\ phase = "ParallelGroupRunning"
    /\ \A s \in StageSet : pc[s] # "ready"
    /\ \E s \in StageSet : pc[s] \in {"done", "raised"}
    /\ AfterGather([i \in DOMAIN ParallelStages |->
                       [is_tuple |-> pc[ParallelStages[i]] = "done",
                        agent_name |-> ParallelStages[i],
                        messages |-> agentMsgs[ParallelStages[i]]]], pc)
    /\ UNCHANGED <<apiKey, today_spend, daily_budget, pc, historian_text,
                   validator_self, inconsistencyChecks, groupTimedOut, repair,
                   clock, final_context, result, error>>
    /\ UNCHANGED <<cacheVars, edgeVars>>

\* gather(..., return_exceptions=True) completes: every task returned its
\* (name, messages) tuple or raised (main.py 2409-2417)
GatherReturn ==
    /\ GatherReturnGuard
    /\ AfterGather([i \in DOMAIN ParallelStages |->
                       [is_tuple |-> pc[ParallelStages[i]] = "done",
                        agent_name |-> ParallelStages[i],
                        messages |-> agentMsgs[ParallelStages[i]]]], pc)
    /\ UNCHANGED <<apiKey, today_spend, daily_budget, pc, historian_text,
                   validator_self, inconsistencyChecks, groupTimedOut, repair,
                   clock, final_context, result, error>>
    /\ UNCHANGED <<cacheVars, edgeVars>>

\* GroupTimeout as it would be if the unfinished tasks were abandoned
\* instead of cancelled
GroupTimeoutNoCancel ==
    /\ phase = "ParallelGroupRunning"
    /\ \A s \in StageSet : pc[s] # "ready"
    /\ \E s \in StageSet : pc[s] = "awaiting"
    /\ pc' = pc
    /\ AfterGather(<<>>, pc)
    /\ groupTimedOut' = TRUE
    /\ UNCHANGED <<apiKey, today_spend, daily_budget, historian_text,
                   validator_self, inconsistencyChecks, repair,
                   clock, final_context, result, error>>
    /\ UNCHANGED <<cacheVars, edgeVars>>

\* wait_for's 60 s pass with a task still suspended: the gather and with it
\* every unfinished task is cancelled, parallel_results = [] (main.py 2418-2420)
GroupTimeout ==
    /\ GroupTimeoutGuard
    /\ LET pcAfter == [s \in StageSet |-> IF pc[s] = "awaiting" THEN "cancelled" ELSE pc[s]]
       IN  /\ pc' = pcAfter
           /\ AfterGather(<<>>, pcAfter)
    /\ groupTimedOut' = TRUE
    /\ UNCHANGED <<apiKey, today_spend, daily_budget, historian_text,
                   validator_self, inconsistencyChecks, repair,
                   clock, final_context, result, error>>
    /\ UNCHANGED <<cacheVars, edgeVars>>

\* ---------------------------------------------------------- Repair Advisor
\* PhysicalRepairAdvisorAgent._get_ai_damage_analysis: None without a JSON
\* object in the response, the parsed analysis and hotspots otherwise
\* (hotspots are kept as the list of their severities)
AiDamageAnalysis(resp) ==
    IF resp = "json_hotspots" THEN
        [present |-> TRUE, analysis |-> "text", hotspots |-> <<"moderate">>]
    ELSE IF resp = "json_invalid" THEN
        [present |-> TRUE, analysis |-> "text", hotspots |-> <<>>]
    ELSE IF resp = "json_badtype" THEN
        [present |-> TRUE, analysis |-> "not_a_string", hotspots |-> <<>>]
    ELSE [present |-> FALSE, analysis |-> "", hotspots |-> <<>>]

\* PhysicalRepairAdvisorAgent._analyze_damage_indicators: severities of the
\* damage types detected (no token of Alphabet is a damage keyword or bracket)
AnalyzeDamageIndicators(text, ocr_confidence) ==
    (IF ocr_confidence < 700 THEN <<"critical">> ELSE <<>>)
    \o (IF ocr_confidence < 600 THEN <<"moderate">> ELSE <<>>)

\* the loop of _calculate_priority: 20 per critical, 10 per moderate, 5 per
\* other damage type
DamageScore(sev) ==
    20 * Count(sev, "critical") + 10 * Count(sev, "moderate")
    + 5 * (Len(sev) - Count(sev, "critical") - Count(sev, "moderate"))

\* PhysicalRepairAdvisorAgent._calculate_priority
CalculatePriority(damage, ocr_confidence) ==
    Min(50 + DamageScore(damage)
           + (IF ocr_confidence < 600 THEN 20 ELSE IF ocr_confidence < 750 THEN 10 ELSE 0),
        100)

\* PhysicalRepairAdvisorAgent.process after its language-service call: the
\* messages it would yield one by one, and the keys it writes at its end.
\* An analysis that is not a string makes AgentMessage(...) raise in emit.
RepairBody(ctx, resp) ==
    LET raw_text == Get(ctx, "raw_text", <<>>)
        ocr == Get(ctx, "ocr_confidence", 700)
        ai == AiDamageAnalysis(resp)
        damage == IF ai.present THEN ai.hotspots
                  ELSE AnalyzeDamageIndicators(raw_text, ocr)
        recs == SubSeq(damage, 1, Min(Len(damage), 3))
        p1 == IF ai.present /\ ai.analysis # "" THEN <<<<"analysis", 850, TRUE>>>> ELSE <<>>
        p2 == IF recs # <<>> THEN
                 (IF recs[1] = "critical" THEN <<<<"critical_issue", 800, TRUE>>>>
                  ELSE IF recs[1] = "moderate" THEN <<<<"moderate_damage", 800, TRUE>>>>
                  ELSE <<<<"minor_issue", 850, FALSE>>>>)
              ELSE <<<<"no_damage", 850, FALSE>>>>
        priority == CalculatePriority(damage, ocr)
        p3 == IF priority > 70 THEN <<<<"priority_high", priority * 10, FALSE>>>>
              ELSE IF priority > 40 THEN <<<<"priority_medium", priority * 10, FALSE>>>>
              ELSE <<<<"priority_low", priority * 10, FALSE>>>>
        p4 == IF recs # <<>> THEN <<<<"assessment_items", 820, FALSE>>>>
              ELSE <<<<"assessment_good", 850, FALSE>>>>
    IN  IF ai.present /\ ai.analysis = "not_a_string" THEN
            [protos |-> <<>>, raised |-> TRUE, kvs |-> <<>>]
        ELSE
            [protos |-> p1 \o p2 \o p3 \o p4, raised |-> FALSE,
             kvs |-> << <<"repair_recommendations", recs>>,
                        <<"damage_hotspots", IF ai.present THEN ai.hotspots ELSE damage>>,
                        <<"digitization_priority", priority>> >>]

\* STEP 3 begins: the coordinator writes two keys and the Repair Advisor runs
\* up to its language-service call; its opening message is yielded
\* (main.py 2455-2469, 2093-2107)
FinalStart ==
    /\ phase = "BarrierReached"
    /\ LET kvs == << <<"previous_agent", "Validator">>, <<"all_agents_complete", TRUE>> >>
           m == Emit("repair_advisor", <<<<"opening", NoConf, FALSE>>>>, clock)
       IN  /\ context' = PutAll(context, kvs)
           /\ ctxLog' = ctxLog \o LogOf(kvs, "coordinator")
           /\ agentMsgs' = [agentMsgs EXCEPT !["repair_advisor"] = @ \o m]
           /\ stream' = stream \o m
           /\ clock' = clock + 1
    /\ repair' = [pc |-> IF LlmCallSuspends THEN "awaiting" ELSE "running",
                  outcome |-> "none"]
    /\ phase' = "FinalStageRunning"
    /\ UNCHANGED <<apiKey, today_spend, daily_budget, pc, historian_text,
                   validator_self, inconsistencyChecks, parallel_results,
                   groupTimedOut, final_context, result, error>>
    /\ UNCHANGED <<cacheVars, edgeVars>>

\* COMPLETION SUMMARY: the message the coordinator creates from final_confidence
SummaryMessage(ctx, ts) ==
    LET final_conf == Get(ctx, "final_confidence", DefaultFinalConfidence)
        kind == IF final_conf >= HighThreshold THEN "summary_high"
                ELSE IF final_conf >= MediumThreshold THEN "summary_medium"
                ELSE "summary_low"
    IN  Msg("validator", "coordinator", kind, final_conf, FALSE, ts)

\* the rest of the run.  The coordinator pulls the Repair Advisor's messages
\* and measures the elapsed time at each; the callers drain the generator
\* without waiting, so time passes only in the language-service call: when
\* that took more than 30 s (slow) the first message after it is dropped and
\* the loop left.  An exception of the Repair Advisor is replaced by the
\* fallback message.  Then the summary is yielded and final_context stored
\* (main.py 2460-2503, 2107-2177)
RepairFinish(resp, slow) ==
    /\ phase = "FinalStageRunning"
    /\ resp \in (IF repair.pc = "awaiting" THEN RepairResponses ELSE {"none"})
    /\ slow => repair.pc = "awaiting"
    /\ LET b == RepairBody(context, resp)
           all == Emit("repair_advisor", b.protos, clock)
           timedOut == slow /\ ~b.raised
           emitted == IF timedOut THEN SubSeq(all, 1, 1) ELSE all
           yielded == IF timedOut THEN <<>> ELSE all
           fallback == IF b.raised
                       THEN <<Msg("repair_advisor", "coordinator", "fallback",
                                  FallbackConfidence, FALSE, clock)>>
                       ELSE <<>>
           ctx1 == IF timedOut \/ b.raised THEN context ELSE PutAll(context, b.kvs)
           ts == clock + Len(emitted) + Len(fallback)
       IN  /\ context' = ctx1
           /\ ctxLog' = IF timedOut \/ b.raised THEN ctxLog
                        ELSE ctxLog \o LogOf(b.kvs, "repair_advisor")
           /\ agentMsgs' = [agentMsgs EXCEPT !["repair_advisor"] = @ \o emitted]
           /\ stream' = stream \o yielded \o fallback \o <<SummaryMessage(ctx1, ts)>>
           /\ clock' = ts + 1
           /\ repair' = [pc |-> "finished",
                         outcome |-> IF b.raised THEN "raised"
                                     ELSE IF timedOut THEN "timeout" ELSE "completed"]
           /\ final_context' = [set |-> TRUE, ctx |-> ctx1]
    /\ today_spend' = SpendAfter(today_spend, resp)
    /\ phase' = "Completed"
    /\ UNCHANGED <<apiKey, daily_budget, pc, historian_text, validator_self,
                   inconsistencyChecks, parallel_results, groupTimedOut,
                   result, error>>
    /\ UNCHANGED <<cacheVars, edgeVars>>

\* the generator is exhausted and the endpoint has not yet built its record
GetResultGuard ==
    /\ phase = "Completed"
    /\ ~result.produced

\* the ResurrectionResult that get_result compiles from a final context
BuildResult(ctx) ==
    [produced |-> TRUE,
     overall_confidence |-> Get(ctx, "final_confidence", DefaultFinalConfidence),
     agent_messages |-> agentMsgs[Agents[1]] \o agentMsgs[Agents[2]]
                       \o agentMsgs[Agents[3]] \o agentMsgs[Agents[4]]
                       \o agentMsgs[Agents[5]],
     raw_ocr_text |-> Get(ctx, "raw_text", "None"),
     transliterated_text |-> Get(ctx, "transliterated_text", "None"),
     validator_corrections |-> Get(ctx, "validator_warnings", "None"),
     repair_recommendations |-> Get(ctx, "repair_recommendations", "None"),
     damage_hotspots |-> Get(ctx, "damage_hotspots", "None")]

\* SwarmOrchestrator.get_result, called by the endpoint after the generator
\* is exhausted (main.py 2505-2585)
GetResult ==
    /\ GetResultGuard
    /\ result' = BuildResult(final_context.ctx)
    /\ UNCHANGED <<apiKey, today_spend, daily_budget, phase, context, ctxLog,
                   agentMsgs, pc, historian_text, validator_self,
                   inconsistencyChecks, parallel_results, groupTimedOut, repair,
                   stream, clock, final_context, error>>
    /\ UNCHANGED <<cacheVars, edgeVars>>

Next ==
    \/ \E img \in Images : Start(img)
    \/ \E ok \in BOOLEAN, text \in Texts : ScannerOcrReturn(ok, text)
    \/ \E s \in StageSet : StageStart(s)
    \/ \E s \in StageSet, resp \in ValidatorResponses : StageLLMReturn(s, resp)
    \/ GatherReturn
    \/ GroupTimeout
    \/ FinalStart
    \/ \E resp \in RepairResponses, slow \in BOOLEAN : RepairFinish(resp, slow)
    \/ GetResult

Spec == Init /\ [][Next]_vars

\* ------------------------------------------------------ DeduplicationCache
Callers == 1..NumCallers
Documents == 1..NumDocs
Endpoints == {"cached", "lite"}
\* /resurrect and /resurrect/stream never touch dedup_cache
DirectEndpoints == {"resurrect", "stream"}

\* DeduplicationCache.compute_hash: the first 16 hex digits of the SHA-256 of
\* the bytes, kept symbolic (equal bytes give equal digests; collisions of
\* the truncated digest are not modelled)
ComputeHash(image_data) == <<"sha256", 16, image_data>>

\* what the processing behind an endpoint can come to: the exception of a
\* failed Scanner, or the dict the endpoint builds for dedup_cache.set
ResultDicts(endpoint) ==
    IF endpoint # "lite" THEN
        {[overall_confidence |-> c, raw_ocr_text |-> "text",
          transliterated_text |-> t, repair_recommendations |-> r,
          damage_hotspots |-> r] :
            c \in {628, DefaultFinalConfidence}, t \in {"text", "None"},
            r \in {"list", "empty"}}
    ELSE
        {[overall_confidence |-> OcrSuccessConfidence, raw_ocr_text |-> "text"]}

\* DeduplicationCache.set
CacheSet(c, image_hash, result_dict, now) ==
    Put(c, image_hash,
        [result |-> result_dict, cached_at |-> now, cache_hash |-> image_hash])

\* what a caching endpoint returns on a hit: resurrect_cached the entry itself,
\* resurrect_lite two fields read from it
HitResponse(endpoint, entry) ==
    IF endpoint = "cached" THEN
        [cached |-> TRUE, result |-> entry]
    ELSE
        [cached |-> TRUE, raw_ocr_text |-> entry.result.raw_ocr_text,
         ocr_confidence |-> entry.result.overall_confidence]

\* a lookup that counts the request and then processes it whatever the cache
\* holds
CacheLookupNoShortCircuit(c, endpoint, doc) ==
    /\ req[c].pc = "idle"
    /\ cache_misses' = cache_misses + 1
    /\ req' = [req EXCEPT ![c] = [pc |-> "processing", endpoint |-> endpoint,
                                  doc |-> doc, consulted |-> TRUE,
                                  hit |-> FALSE, returned |-> <<>>]]
    /\ UNCHANGED <<cache, cache_hits, clock>>

\* resurrect_cached / resurrect_lite up to the start of the processing:
\* compute_hash, then DeduplicationCache.get (main.py 2831-2843, 2885-2897,
\* 2690-2698)
CacheLookup(c, endpoint, doc) ==
    /\ req[c].pc = "idle"
    /\ LET image_hash == ComputeHash(doc)
       IN  IF image_hash \in DOMAIN cache THEN
              /\ cache_hits' = cache_hits + 1
              /\ req' = [req EXCEPT ![c] = [pc |-> "done", endpoint |-> endpoint,
                                            doc |-> doc, consulted |-> TRUE,
                                            hit |-> TRUE,
                                            returned |->
                                              HitResponse(endpoint, cache[image_hash])]]
              /\ UNCHANGED cache_misses
           ELSE
              /\ cache_misses' = cache_misses + 1
              /\ req' = [req EXCEPT ![c] = [pc |-> "processing", endpoint |-> endpoint,
                                            doc |-> doc, consulted |-> TRUE,
                                            hit |-> FALSE, returned |-> <<>>]]
              /\ UNCHANGED cache_hits
    /\ UNCHANGED <<cache, clock>>

\* the processing of a request that missed ends: an exception leaves the
\* endpoint, or the result is stored with DeduplicationCache.set and returned
\* (main.py 2845-2869, 2899-2922, 2700-2707)
ProcessingReturn(c, raised, result_dict) ==
    /\ req[c].pc = "processing"
    /\ req[c].endpoint \in Endpoints
    /\ result_dict \in ResultDicts(req[c].endpoint)
    /\ IF raised THEN
          /\ req' = [req EXCEPT ![c].pc = "failed"]
          /\ UNCHANGED <<cache, clock>>
       ELSE
          /\ cache' = CacheSet(cache, ComputeHash(req[c].doc), result_dict, clock)
          /\ clock' = clock + 1
          /\ req' = [req EXCEPT ![c].pc = "done", ![c].returned = result_dict]
    /\ UNCHANGED <<cache_hits, cache_misses>>

\* resurrect_document / resurrect_document_stream receive a request: the
\* bytes are read and a fresh SwarmOrchestrator is started, dedup_cache is
\* not consulted (main.py 2934-2941, 2968-2990)
ResurrectDocument(c, endpoint, doc) ==
    /\ req[c].pc = "idle"
    /\ endpoint \in DirectEndpoints
    /\ req' = [req EXCEPT ![c] = [pc |-> "processing", endpoint |-> endpoint,
                                  doc |-> doc, consulted |-> FALSE,
                                  hit |-> FALSE, returned |-> <<>>]]
    /\ UNCHANGED <<cache, cache_hits, cache_misses, clock>>

\* the run started by resurrect_document / resurrect_document_stream ends:
\* the record (or the failure) goes to the caller, nothing is cached
ResurrectDocumentReturn(c, raised, result_dict) ==
    /\ req[c].pc = "processing"
    /\ req[c].endpoint \in DirectEndpoints
    /\ result_dict \in ResultDicts(req[c].endpoint)
    /\ req' = IF raised THEN [req EXCEPT ![c].pc = "failed"]
              ELSE [req EXCEPT ![c].pc = "done", ![c].returned = result_dict]
    /\ UNCHANGED <<cache, cache_hits, cache_misses, clock>>

AllResultDicts == ResultDicts("cached") \cup ResultDicts("lite")

InitCache ==
    /\ apiKey = TRUE
    /\ today_spend = 0
    /\ daily_budget = 0
    /\ phase = "NotStarted"
    /\ context = <<>>
    /\ ctxLog = <<>>
    /\ agentMsgs = [a \in Range(Agents) |-> <<>>]
    /\ pc = [s \in StageSet |-> "idle"]
    /\ historian_text = <<>>
    /\ validator_self = [warnings |-> <<>>, corrections |-> <<>>]
    /\ inconsistencyChecks = <<>>
    /\ parallel_results = <<>>
    /\ groupTimedOut = FALSE
    /\ repair = [pc |-> "idle", outcome |-> "none"]
    /\ stream = <<>>
    /\ clock = 0
    /\ final_context = [set |-> FALSE, ctx |-> <<>>]
    /\ result = [produced |-> FALSE]
    /\ error = "none"
    /\ cache = <<>>
    /\ cache_hits = 0
    /\ cache_misses = 0
    /\ req = NoRequests
    /\ llm_call = NoCall
    /\ sse = NoEvents

cacheFrame == <<apiKey, today_spend, daily_budget, phase, context, ctxLog, agentMsgs,
                pc, historian_text, validator_self, inconsistencyChecks,
                parallel_results, groupTimedOut, repair, stream,
                final_context, result, error, llm_call, sse>>

NextCache ==
    \/ \E c \in Callers, e \in Endpoints, d \in Documents :
          CacheLookup(c, e, d) /\ UNCHANGED cacheFrame
    \/ \E c \in Callers, raised \in BOOLEAN, r \in AllResultDicts :
          ProcessingReturn(c, raised, r) /\ UNCHANGED cacheFrame
    \/ \E c \in Callers, e \in DirectEndpoints, d \in Documents :
          ResurrectDocument(c, e, d) /\ UNCHANGED cacheFrame
    \/ \E c \in Callers, raised \in BOOLEAN, r \in AllResultDicts :
          ResurrectDocumentReturn(c, raised, r) /\ UNCHANGED cacheFrame

\* concurrent requests to the four resurrection endpoints, each processed once
CacheSpec == InitCache /\ [][NextCache]_vars

\* ------------------------------------------- the Validator on given inputs
\* ValidatorAgent.process run on a context handed to it (as the property
\* tests do), followed by the coordinator's closing summary and get_result.
\* Confidences are tenths of a percent.
OcrChoices == {0 - 1000, 0 - 5, 0, 500, 820, 1000, 1005, 2000}
LengthChoices == {0, 1, 3, 4, 10, 13, 14, 100, 110, 130, 131, 145}

PlainText(n) == [i \in 1..n |-> "a"]
NFacts(n) == [i \in 1..n |-> "Fact"]
NWarnings(n) == [i \in 1..n |-> "Warning"]

\* contexts that vary what _calculate_final_confidence reads; the list of
\* warnings is in the agent (self.warnings) and, in two of three cases, also
\* under validator_warnings in the context (empty, or the same list)
ConfidenceContexts ==
    {[raw_text |-> PlainText(1), transliterated_text |-> PlainText(1),
      ocr_confidence |-> o, verified_facts |-> NFacts(f),
      historical_anomalies |-> <<>>] :
        o \in OcrChoices, f \in 0..MaxFacts}
    \cup
    {[raw_text |-> PlainText(1), transliterated_text |-> PlainText(1),
      ocr_confidence |-> o, verified_facts |-> NFacts(f),
      historical_anomalies |-> <<>>, validator_warnings |-> NWarnings(w)] :
        o \in OcrChoices, f \in 0..MaxFacts, w \in 0..MaxWarnings}

\* contexts that vary what _detect_inconsistencies reads
LengthContexts ==
    {[raw_text |-> PlainText(n), transliterated_text |-> PlainText(m),
      ocr_confidence |-> OcrSuccessConfidence, verified_facts |-> <<>>,
      historical_anomalies |-> <<>>] :
        n \in LengthChoices, m \in LengthChoices}

InitValidator ==
    /\ apiKey = TRUE
    /\ today_spend = 0
    /\ daily_budget = 0
    /\ phase = "NotStarted"
    /\ \/ /\ context \in ConfidenceContexts
          /\ \E w \in 0..MaxWarnings :
                /\ validator_self = [warnings |-> NWarnings(w), corrections |-> <<>>]
                /\ "validator_warnings" \in DOMAIN context =>
                      Len(context["validator_warnings"]) \in {0, w}
       \/ /\ context \in LengthContexts
          /\ validator_self = [warnings |-> <<>>, corrections |-> <<>>]
    /\ ctxLog = <<>>
    /\ agentMsgs = [a \in Range(Agents) |-> <<>>]
    /\ pc = [s \in StageSet |-> "idle"]
    /\ historian_text = <<>>
    /\ inconsistencyChecks = <<>>
    /\ parallel_results = <<>>
    /\ groupTimedOut = FALSE
    /\ repair = [pc |-> "idle", outcome |-> "none"]
    /\ stream = <<>>
    /\ clock = 0
    /\ final_context = [set |-> FALSE, ctx |-> <<>>]
    /\ result = [produced |-> FALSE]
    /\ error = "none"
    /\ cache = <<>>
    /\ cache_hits = 0
    /\ cache_misses = 0
    /\ req = NoRequests
    /\ llm_call = NoCall
    /\ sse = NoEvents

\* ValidatorAgent.process from its opening message to its three context
\* keys, with ai the outcome of _get_ai_validation (main.py 1862-1907)
ValidatorProcess(ai) ==
    /\ pc["validator"] = "idle"
    /\ ai \in ValidatorResponses
    /\ FinishStage("validator", context, ctxLog, <<<<"opening", NoConf, FALSE>>>>,
                   ai, historian_text)
    /\ UNCHANGED <<apiKey, today_spend, daily_budget, phase, historian_text,
                   parallel_results, groupTimedOut, repair, stream, final_context,
                   result, error>>
    /\ UNCHANGED <<cacheVars, edgeVars>>

\* the closing summary of resurrect and the record of get_result for the
\* context the Validator left (main.py 2482-2503, 2505-2585)
ValidatorReport ==
    /\ pc["validator"] = "done"
    /\ ~final_context.set
    /\ stream' = <<SummaryMessage(context, clock)>>
    /\ clock' = clock + 1
    /\ final_context' = [set |-> TRUE, ctx |-> context]
    /\ result' = BuildResult(context)
    /\ UNCHANGED <<apiKey, today_spend, daily_budget, phase, context, ctxLog,
                   agentMsgs, pc, historian_text, validator_self,
                   inconsistencyChecks, parallel_results, groupTimedOut, repair,
                   error>>
    /\ UNCHANGED <<cacheVars, edgeVars>>

NextValidator ==
    \/ \E ai \in ValidatorResponses : ValidatorProcess(ai)
    \/ ValidatorReport

\* the Validator applied to every drawn context
ValidatorSpec == InitValidator /\ [][NextValidator]_vars

\* ================================================================= claims
Finished(s) == pc[s] \in {"done", "raised", "cancelled"}
SummaryKinds == {"summary_high", "summary_medium", "summary_low"}
RunCompleted ==
    /\ phase = "Completed"
    /\ final_context.set
    /\ stream # <<>>
    /\ stream[Len(stream)].src = "coordinator"
    /\ stream[Len(stream)].kind \in SummaryKinds

\* some action of the run after the Scanner is enabled (FinalStart and
\* RepairFinish need nothing but their phase)
CanStep ==
    \/ \E s \in StageSet : StageStartGuard(s)
    \/ \E s \in StageSet : pc[s] = "awaiting"
    \/ GatherReturnGuard
    \/ GroupTimeoutGuard
    \/ phase \in {"BarrierReached", "FinalStageRunning"}
    \/ GetResultGuard

\* C1: once the Scanner has succeeded no failure or timeout of the Linguist,
\* Historian, Validator or Repair Advisor aborts the run: the run is Errored
\* only if no later stage ever started, it is never stuck before Completed,
\* in Completed the closing summary has been yielded and the final context
\* stored, and the caller then gets (or has got) its final record.
C1_NonFirstFailuresNeverAbort ==
    /\ phase = "Errored" => (\A s \in StageSet : pc[s] = "idle") /\ repair.pc = "idle"
    /\ phase \in {"ParallelGroupRunning", "BarrierReached", "FinalStageRunning"} => CanStep
    /\ phase = "Completed" => RunCompleted /\ (result.produced \/ GetResultGuard)
    /\ result.produced => RunCompleted

\* a completed run with a record in which the Linguist raised, the group
\* timed out and the Repair Advisor raised or timed out
C1_Witness ==
    /\ RunCompleted /\ result.produced
    /\ pc["linguist"] = "raised"
    /\ groupTimedOut
    /\ repair.outcome \in {"raised", "timeout"}

\* C2: when the recognition call fails the run is Errored: the exception is
\* raised to the caller, no task of the parallel group and no Repair Advisor
\* was started, and neither final context nor final record exists.
C2_ScannerFailureAborts ==
    (\E i \in DOMAIN agentMsgs["scanner"] : agentMsgs["scanner"][i].kind = "ocr_failed")
    => /\ phase = "Errored"
       /\ error = "PaddleOCR-VL API failed"
       /\ \A s \in StageSet : pc[s] = "idle" /\ agentMsgs[s] = <<>>
       /\ repair.pc = "idle" /\ agentMsgs["repair_advisor"] = <<>>
       /\ ~final_context.set
       /\ ~result.produced

\* the recognition call failed for a decodable image although a key is set
C2_Witness ==
    /\ phase = "Errored"
    /\ apiKey
    /\ "document_analysis" \in DOMAIN context
    /\ stream[Len(stream)].kind = "ocr_failed"

\* C3: a message of a parallel stage is on the output stream only when all
\* three stages have completed, raised or been cancelled, and none follows a
\* message that the Repair Advisor produced.
C3_ParallelMessagesAfterBarrier ==
    /\ (\E i \in DOMAIN stream : stream[i].src \in StageSet)
          => \A s \in StageSet : Finished(s)
    /\ \A i, j \in DOMAIN stream :
          (i < j /\ stream[i].src = "repair_advisor") => stream[j].src \notin StageSet

\* parallel-stage messages and Repair Advisor messages are both on the stream
C3_Witness ==
    /\ phase = "Completed"
    /\ \E i \in DOMAIN stream : stream[i].src = "historian"
    /\ \E i \in DOMAIN stream : stream[i].src = "validator"
    /\ \E i \in DOMAIN stream : stream[i].src = "repair_advisor" /\ stream[i].kind # "opening"

PhaseOrder == <<"NotStarted", "ScannerRunning", "ParallelGroupRunning",
                "BarrierReached", "FinalStageRunning", "Completed">>

PhaseStep(p, q) ==
    \/ q = p
    \/ \E i \in 1..(Len(PhaseOrder) - 1) : p = PhaseOrder[i] /\ q = PhaseOrder[i + 1]
    \/ p \notin {"Completed", "Errored"} /\ q = "Errored"

\* stage s took a step, emitted a message or wrote a context key
StageActed(s) ==
    \/ pc'[s] # pc[s] /\ pc'[s] \in {"awaiting", "done", "raised"}
    \/ Len(agentMsgs'[s]) > Len(agentMsgs[s])
    \/ \E i \in DOMAIN ctxLog' : i > Len(ctxLog) /\ ctxLog'[i].by = s

\* C8: the phase only ever moves to the next one of NotStarted,
\* ScannerRunning, ParallelGroupRunning, BarrierReached, FinalStageRunning,
\* Completed (or to Errored); a parallel stage steps, emits and writes only
\* while the parallel group is running; Completed and Errored are never left.
C8_PhasesInOrder ==
    [][ /\ PhaseStep(phase, phase')
        /\ \A s \in StageSet : StageActed(s) => phase = "ParallelGroupRunning" ]_vars

\* a run that went through the group timeout and on to Completed
C8_Witness ==
    /\ phase = "Completed"
    /\ groupTimedOut
    /\ \E s \in StageSet : pc[s] = "cancelled"
    /\ \E s \in StageSet : pc[s] = "done"

\* C4 (as claimed): when the parallel group times out, a stage that had
\* completed keeps its messages (they are yielded on the stream) and its
\* context keys, and only a stage that timed out contributes nothing.
C4_CompletedStagesKeptOnTimeout ==
    groupTimedOut =>
        \A s \in StageSet :
            /\ pc[s] = "done" =>
                  \A i \in DOMAIN agentMsgs[s] :
                      \E j \in DOMAIN stream :
                          /\ stream[j].src = s
                          /\ stream[j].timestamp = agentMsgs[s][i].timestamp
            /\ pc[s] = "cancelled" => \A j \in DOMAIN stream : stream[j].src # s

\* C5 (as claimed): the timeout of one parallel stage leaves every sibling
\* that is still waiting for its language-service call running.
C5_TimeoutCancelsOnlyThatStage ==
    [][ \A s, t \in StageSet :
          (s # t /\ pc[s] = "awaiting" /\ pc'[s] = "cancelled" /\ pc[t] = "awaiting")
             => pc'[t] = "awaiting" ]_vars

\* a finding that notes a failure or timeout of a stage: no emit, fallback or
\* warning of the code produces one
NotesFailure(kind) == kind \in {"stage_timeout", "stage_failed"}

\* C6 (as claimed): in a completed run in which a parallel stage raised or
\* was timed out, or the Repair Advisor raised or timed out, a finding - a
\* message on the stream or a validator warning - notes that failure.
C6_FailureRecordedAsFinding ==
    (/\ phase = "Completed"
     /\ \/ groupTimedOut
        \/ \E s \in StageSet : pc[s] = "raised"
        \/ repair.outcome \in {"raised", "timeout"})
    => \/ \E i \in DOMAIN stream : NotesFailure(stream[i].kind)
       \/ \E i \in DOMAIN validator_self.warnings : NotesFailure(validator_self.warnings[i])

\* C7 (as claimed): a run whose Repair Advisor exceeded its 30 s has the
\* fixed fallback message on the stream.
C7_RepairTimeoutYieldsFallback ==
    (phase = "Completed" /\ repair.outcome = "timeout")
    => \E i \in DOMAIN stream : stream[i].kind = "fallback"

\* C9 (as claimed): by the time the final stage starts inconsistency
\* detection has run exactly once, and it ran when the Linguist and the
\* Historian had finished, so with the normalized text of this run at hand.
C9_InconsistencyCheckOnceAfterGroup ==
    /\ phase \in {"FinalStageRunning", "Completed"} => Len(inconsistencyChecks) = 1
    /\ \A i \in DOMAIN inconsistencyChecks :
          /\ inconsistencyChecks[i].linguist \in {"done", "raised", "cancelled"}
          /\ inconsistencyChecks[i].historian \in {"done", "raised", "cancelled"}

\* C10 (as claimed): two requests to /resurrect/cached for the same bytes
\* never both miss, both process and both insert.
C10_LookupInsertSerialized ==
    \A c1, c2 \in Callers :
        ~ /\ c1 # c2
          /\ req[c1].endpoint = "cached" /\ req[c2].endpoint = "cached"
          /\ req[c1].doc = req[c2].doc
          /\ req[c1].pc = "done" /\ ~req[c1].hit
          /\ req[c2].pc = "done" /\ ~req[c2].hit

\* C11 (as claimed): an entry stored for a hash is never replaced or changed
\* by any later step, so every later lookup of the hash returns it.
C11_EntryNeverMutated ==
    [][ \A h \in DOMAIN cache : h \in DOMAIN cache' /\ cache'[h] = cache[h] ]_vars

\* C12 (as claimed): every request that has been received consulted the
\* cache before anything else.
C12_EveryRequestConsultsCache ==
    \A c \in Callers : req[c].pc # "idle" => req[c].consulted

\* C12 (amended): a request received by /resurrect/cached or /resurrect/lite
\* consults the cache first; when its hash is cached it is answered at once
\* from that entry and never processed, otherwise it is processed. A request
\* received by /resurrect or /resurrect/stream is processed without the cache
\* being read or counted. An answered request takes no further step.
C12_CachingEndpointsShortCircuit ==
    [][ \A c \in Callers :
          /\ (req[c].pc = "idle" /\ req'[c].pc # "idle") =>
                LET r == req'[c]
                    h == ComputeHash(r.doc)
                IN  IF r.endpoint \in Endpoints THEN
                       /\ r.consulted
                       /\ IF h \in DOMAIN cache
                          THEN /\ r.pc = "done" /\ r.hit
                               /\ r.returned = HitResponse(r.endpoint, cache[h])
                               /\ cache' = cache
                          ELSE r.pc = "processing" /\ ~r.hit
                    ELSE
                       /\ ~r.consulted /\ r.pc = "processing"
                       /\ cache_hits' = cache_hits /\ cache_misses' = cache_misses
          /\ req[c].pc \in {"done", "failed"} => req'[c] = req[c] ]_vars

\* a request was answered from an entry that an earlier request had stored
C12_Witness ==
    \E c \in Callers :
        /\ req[c].pc = "done" /\ req[c].hit /\ req[c].returned.cached
        /\ req[c].endpoint \in Endpoints
        /\ ComputeHash(req[c].doc) \in DOMAIN cache

\* C13 (as claimed): no step assigns a context key that an earlier step of
\* the run had already assigned.
C13_WrittenKeyNeverAssignedAgain ==
    [][ \A i \in DOMAIN ctxLog' :
          i > Len(ctxLog) => \A j \in 1..(i - 1) : ctxLog'[j].key # ctxLog'[i].key ]_vars

\* C13 (amended): a key of the context stays, and the value stored under it
\* never changes, with two exceptions, both made by the coordinator:
\* previous_agent is replaced when the final stage starts, and agent_findings
\* gains entries (an entry, once there, does not change).  In particular a
\* stage task, its re-assignment of previous_agent / previous_findings
\* included, leaves every value that was present unchanged.
C13_StoredValuesKept ==
    [][ \A k \in DOMAIN context :
          /\ k \in DOMAIN context'
          /\ context'[k] # context[k] =>
                \/ /\ k = "previous_agent"
                   /\ phase = "BarrierReached" /\ phase' = "FinalStageRunning"
                \/ /\ k = "agent_findings"
                   /\ \A a \in DOMAIN context[k] :
                         a \in DOMAIN context'[k] /\ context'[k][a] = context[k][a]
                   /\ \A s \in StageSet : ~StageActed(s) ]_vars

\* a completed run in which the stages wrote their keys after one another and
\* the coordinator replaced previous_agent
C13_Witness ==
    /\ phase = "Completed"
    /\ context["previous_agent"] = "Validator"
    /\ {"transliterated_text", "verified_facts", "final_confidence",
        "digitization_priority"} \subseteq DOMAIN context
    /\ Cardinality({i \in DOMAIN ctxLog : ctxLog[i].key = "previous_agent"}) = 4

\* C14 (as claimed): no context key is written by two different tasks of the
\* parallel group.
C14_NoKeyWrittenByTwoStages ==
    \A i, j \in DOMAIN ctxLog :
        (ctxLog[i].by \in StageSet /\ ctxLog[j].by \in StageSet
         /\ ctxLog[i].key = ctxLog[j].key) => ctxLog[i].by = ctxLog[j].by

\* C14 (amended): the only keys written by more than one task of the
\* parallel group are previous_agent and previous_findings, which every task
\* sets to the same values (the Scanner's name, the size of the recognised
\* text) before its agent runs; every other key has a single writing stage.
C14_OnlyPrologueKeysShared ==
    /\ \A i, j \in DOMAIN ctxLog :
          (ctxLog[i].by \in StageSet /\ ctxLog[j].by \in StageSet
           /\ ctxLog[i].key = ctxLog[j].key /\ ctxLog[i].by # ctxLog[j].by)
          => ctxLog[i].key \in {"previous_agent", "previous_findings"}
    /\ (phase = "ParallelGroupRunning" /\ "previous_agent" \in DOMAIN context) =>
          /\ context["previous_agent"] = "Scanner"
          /\ context["previous_findings"] = TextLen(context["raw_text"])

\* all three stages have written their own keys
C14_Witness ==
    /\ \A s \in StageSet : pc[s] = "done"
    /\ \A s \in StageSet :
          \E i \in DOMAIN ctxLog :
              ctxLog[i].by = s /\ ctxLog[i].key \notin {"previous_agent", "previous_findings"}
    /\ \A s \in StageSet :
          \E i \in DOMAIN ctxLog : ctxLog[i].by = s /\ ctxLog[i].key = "previous_agent"

\* the Validator has processed the context it was given
ValidatorProcessed == pc["validator"] = "done" /\ "final_confidence" \in DOMAIN context

\* C15: the final confidence is within [0,100] (0..1000 tenths) wherever it
\* appears - in the context, on the Validator's own assessment message, on
\* the closing summary and in the final record - also when the recognition
\* confidence handed to the Validator lies outside that range.
C15_FinalConfidenceInRange ==
    /\ "final_confidence" \in DOMAIN context => context["final_confidence"] \in 0..1000
    /\ \A i \in DOMAIN agentMsgs["validator"] :
          agentMsgs["validator"][i].kind \in {"high", "medium", "low"}
             => agentMsgs["validator"][i].confidence \in 0..1000
    /\ \A i \in DOMAIN stream :
          stream[i].kind \in SummaryKinds => stream[i].confidence \in 0..1000
    /\ result.produced => result.overall_confidence \in 0..1000

\* a record produced from a recognition confidence of 200%
C15_Witness ==
    /\ result.produced
    /\ context["ocr_confidence"] > 1000
    /\ result.overall_confidence = context["final_confidence"]
    /\ \E i \in DOMAIN stream : stream[i].confidence = result.overall_confidence

\* C16: the Validator stores 0.4 * clamp(recognition confidence) + 0.3 *
\* min(15 per verified fact, 100) + 0.3 * max(0, 100 - 10 per warning),
\* clamped to [0,100], the warnings being the list under validator_warnings
\* when the context has one and the agent's own list otherwise; and with any
\* warning counted the value is below that of the same context without
\* warnings.
C16_WeightedSum ==
    [][ (pc["validator"] = "idle" /\ pc'["validator"] = "done") =>
          LET ocr == IF context["ocr_confidence"] < 0 THEN 0
                     ELSE IF context["ocr_confidence"] > 1000 THEN 1000
                     ELSE context["ocr_confidence"]
              facts == Len(context["verified_facts"])
              w == IF "validator_warnings" \in DOMAIN context
                   THEN Len(context["validator_warnings"])
                   ELSE Len(validator_self'.warnings)
              fromFacts == IF 150 * facts > 1000 THEN 1000 ELSE 150 * facts
              penalty == IF 100 * w > 1000 THEN 0 ELSE 1000 - 100 * w
              sum == (4 * ocr + 3 * fromFacts + 3 * penalty) \div 10
              none == Put(context, "validator_warnings", <<>>)
          IN  /\ sum \in 0..1000
              /\ context'["final_confidence"] = sum
              /\ w > 0 => context'["final_confidence"] < CalculateFinalConfidence(none, <<>>)
      ]_vars

\* the Validator scored a context with the facts score at its cap and at
\* least three warnings
C16_Witness ==
    /\ ValidatorProcessed
    /\ Len(context["verified_facts"]) >= 7
    /\ Len(context["validator_warnings"]) >= 3
    /\ context["ocr_confidence"] = OcrSuccessConfidence
    /\ context["final_confidence"] < 1000

\* the Validator emitted an inconsistency finding
InconsistencyEmitted ==
    \E i \in DOMAIN agentMsgs["validator"] : agentMsgs["validator"][i].kind = "inconsistency"

\* C17 (as claimed): for a non-empty original text the Validator emits an
\* inconsistency finding exactly when the length of the normalized text
\* differs from the original length by more than 30% of it.
C17_FindingIffChangeOverThirty ==
    (ValidatorProcessed /\ Len(context["raw_text"]) > 0) =>
        LET n == Len(context["raw_text"])
            m == Len(context["transliterated_text"])
        IN  InconsistencyEmitted <=> 10 * Abs(n - m) > 3 * n

\* C17 (amended): the Validator emits an inconsistency finding exactly when
\* both texts are non-empty and their lengths differ by more than 30% of the
\* original length: 100 and 145 give one, 100 and 110 (and 100 and 130) none,
\* and so does an empty text on either side.
C17_FindingIffBothTextsAndOverThirty ==
    ValidatorProcessed =>
        LET n == Len(context["raw_text"])
            m == Len(context["transliterated_text"])
        IN  /\ InconsistencyEmitted <=> (n > 0 /\ m > 0 /\ 10 * Abs(n - m) > 3 * n)
            /\ (n = 100 /\ m = 145) => InconsistencyEmitted
            /\ (n = 100 /\ m \in {110, 130, 0}) => ~InconsistencyEmitted
            /\ InconsistencyEmitted =>
                  /\ validator_self.warnings # <<>>
                  /\ inconsistencyChecks[Len(inconsistencyChecks)].found

\* the finding for original length 100 and normalized length 145
C17_Witness ==
    /\ ValidatorProcessed
    /\ Len(context["raw_text"]) = 100
    /\ Len(context["transliterated_text"]) = 145
    /\ InconsistencyEmitted

\* the highest final confidence a run of these inputs reaches when every
\* parallel stage completes: the Historian verifies every fact the text
\* offers and the Validator counts no warning
CompleteRunConfidence(ctx) ==
    LET normalized == Transliterate(ctx["raw_text"]).result
        facts == HistorianBody(normalized, "insight").kvs[2][2]
    IN  CalculateFinalConfidence(
            [ocr_confidence |-> ctx["ocr_confidence"], verified_facts |-> facts], <<>>)

\* C18 (as claimed): the final confidence of a completed run in which a
\* parallel stage raised or was timed out is not above the confidence the
\* same recognised text yields when the stages complete.
C18_FailureNeverRaisesConfidence ==
    (phase = "Completed" /\ \E s \in StageSet : pc[s] \in {"raised", "cancelled"})
    => Get(final_context.ctx, "final_confidence", DefaultFinalConfidence)
          <= CompleteRunConfidence(context)

\* the bytes given to the run are empty or cannot be decoded as an image
InvalidImage ==
    "image_data" \in DOMAIN context /\ context["image_data"] \in {"empty", "corrupt"}

\* C19 (as claimed): a run given invalid image bytes goes from the Scanner to
\* Errored: no parallel stage starts and no record is produced.
C19_InvalidImageFatal ==
    InvalidImage =>
        /\ phase \in {"ScannerRunning", "Errored"}
        /\ \A s \in StageSet : pc[s] = "idle"
        /\ ~result.produced

\* C19 (amended): invalid bytes are fatal only through the recognition step.
\* Empty bytes always end the run in Errored.  Bytes that cannot be decoded
\* make the Scanner emit a notice and skip its analysis keys; the recognition
\* is still tried on them, and the run leaves the Scanner for Errored exactly
\* when the recognition reports a failure (then with the failure message
\* last on the stream, the error raised and no record), and otherwise goes on
\* like any other run.
C19_InvalidImageFatalOnlyIfOcrFails ==
    InvalidImage =>
        /\ context["image_data"] = "empty" => phase \in {"ScannerRunning", "Errored"}
        /\ context["image_data"] = "corrupt" =>
              /\ "document_analysis" \notin DOMAIN context
              /\ \E i \in DOMAIN stream : stream[i].kind = "snag"
        /\ phase = "Errored" =>
              /\ stream[Len(stream)].kind = "ocr_failed"
              /\ error = "PaddleOCR-VL API failed"
              /\ \A s \in StageSet : pc[s] = "idle"
              /\ ~final_context.set /\ ~result.produced
        /\ phase \notin {"ScannerRunning", "Errored"} =>
              /\ apiKey
              /\ "raw_text" \in DOMAIN context
              /\ \E i \in DOMAIN stream : stream[i].kind = "extracted"

\* a record was produced for bytes that could not be decoded
C19_Witness ==
    /\ InvalidImage
    /\ context["image_data"] = "corrupt"
    /\ phase = "Completed"
    /\ result.produced

\* C20: a stage that has issued its language-service call never issues one
\* again - when the call returns, whatever the outcome, the stage runs to its
\* end, and a stage that has ended takes no further step; the same holds for
\* the Repair Advisor; a failed recognition ends the run in Errored, which is
\* never left; and one step records the cost of at most one call.
C20_SingleAttemptPerCall ==
    [][ /\ \A s \in StageSet :
            /\ pc[s] = "awaiting" => pc'[s] \in {"awaiting", "done", "raised", "cancelled"}
            /\ pc[s] \in {"done", "raised", "cancelled"} => pc'[s] = pc[s]
        /\ repair.pc = "awaiting" => repair'.pc \in {"awaiting", "finished"}
        /\ repair.pc = "finished" => repair'.pc = "finished"
        /\ phase = "ScannerRunning" =>
              phase' \in {"ScannerRunning", "ParallelGroupRunning", "Errored"}
        /\ phase = "Errored" => phase' = "Errored"
        /\ today_spend' \in {today_spend, today_spend + EstimatedCost} ]_vars

\* a completed run with a key and budget in which every language-service
\* call was issued and failed: nothing was spent, no AI message was emitted
C20_Witness ==
    /\ phase = "Completed"
    /\ apiKey /\ daily_budget >= EstimatedCost /\ today_spend = 0
    /\ \A s \in StageSet : pc[s] = "done"
    /\ repair.outcome = "completed"
    /\ \A i \in DOMAIN stream : stream[i].kind \notin {"ai_insight", "ai_validation"}

\* ================================================ call_ernie_llm: the input
\* A character of a user_input is named by its position in it; a character
\* of the truncation marker by zero.
MAX_INPUT_CHARS == 1500
MarkerLen == 19
LinguistPromptLen == 85

\* "\n...[truncated]...\n"
TruncationMarker == [i \in 1..MarkerLen |-> 0]

\* call_ernie_llm, the user_input it puts in the request (main.py 280-285)
TruncateInput(user_input) ==
    LET half == MAX_INPUT_CHARS \div 2
        n == Len(user_input)
    IN  IF n > MAX_INPUT_CHARS
        THEN SubSeq(user_input, 1, half) \o TruncationMarker
                 \o SubSeq(user_input, n - half + 1, n)
        ELSE user_input

\* lengths of the user_input the stages build: a prompt followed by a slice
\* of the document text (the Linguist's is 85 characters and text[:1500])
InputLengths ==
    {0, 1, 750, LinguistPromptLen, LinguistPromptLen + MAX_INPUT_CHARS, 3000}
        \cup ((MAX_INPUT_CHARS - 5)..(MAX_INPUT_CHARS + MarkerLen + 5))

UserInput(n) == [i \in 1..n |-> i]

InitLlm ==
    /\ apiKey \in BOOLEAN
    /\ today_spend = 0
    /\ daily_budget \in BudgetChoices
    /\ phase = "NotStarted"
    /\ context = <<>>
    /\ ctxLog = <<>>
    /\ agentMsgs = [a \in Range(Agents) |-> <<>>]
    /\ pc = [s \in StageSet |-> "idle"]
    /\ historian_text = <<>>
    /\ validator_self = [warnings |-> <<>>, corrections |-> <<>>]
    /\ inconsistencyChecks = <<>>
    /\ parallel_results = <<>>
    /\ groupTimedOut = FALSE
    /\ repair = [pc |-> "idle", outcome |-> "none"]
    /\ stream = <<>>
    /\ clock = 0
    /\ final_context = [set |-> FALSE, ctx |-> <<>>]
    /\ result = [produced |-> FALSE]
    /\ error = "none"
    /\ cache = <<>>
    /\ cache_hits = 0
    /\ cache_misses = 0
    /\ req = NoRequests
    /\ \E n \in InputLengths :
          llm_call = [state |-> "given", user_input |-> UserInput(n), sent |-> <<>>]
    /\ sse = NoEvents

llmFrame == <<apiKey, daily_budget, phase, context, ctxLog, agentMsgs, pc,
              historian_text, validator_self, inconsistencyChecks,
              parallel_results, groupTimedOut, repair, stream, clock,
              final_context, result, error, cache, cache_hits, cache_misses,
              req, sse>>

\* call_ernie_llm without a key or without budget left: None, no request
\* (main.py 270-278)
LlmRefuse ==
    /\ llm_call.state = "given"
    /\ ~LlmCallSuspends
    /\ llm_call' = [llm_call EXCEPT !.state = "returned_none"]
    /\ UNCHANGED today_spend
    /\ UNCHANGED llmFrame

\* call_ernie_llm up to its client.post (main.py 280-304)
LlmSend ==
    /\ llm_call.state = "given"
    /\ LlmCallSuspends
    /\ llm_call' = [llm_call EXCEPT !.state = "sent",
                                    !.sent = TruncateInput(llm_call.user_input)]
    /\ UNCHANGED today_spend
    /\ UNCHANGED llmFrame

\* call_ernie_llm from the response on (main.py 306-330)
LlmReturn(resp) ==
    /\ llm_call.state = "sent"
    /\ today_spend' = SpendAfter(today_spend, resp)
    /\ llm_call' = [llm_call EXCEPT !.state =
                        IF resp = "none" THEN "returned_none" ELSE "returned_text"]
    /\ UNCHANGED llmFrame

NextLlm ==
    \/ LlmRefuse
    \/ LlmSend
    \/ \E resp \in LinguistResponses : LlmReturn(resp)

\* one call of call_ernie_llm on every drawn user_input
LlmSpec == InitLlm /\ [][NextLlm]_vars

\* the request of the call went out
RequestSent == llm_call.state \in {"sent", "returned_none", "returned_text"}
                   /\ llm_call.sent # <<>>

\* C21: the user text a language-service call sends never exceeds the cap of
\* 1500 characters: an input over the cap is sent as a head portion followed
\* by a tail portion of the original, an input within the cap is sent as it is
C21_SentTextWithinCap ==
    RequestSent =>
        LET u == llm_call.user_input
            sent == llm_call.sent
        IN  /\ Len(sent) <= MAX_INPUT_CHARS
            /\ Len(u) <= MAX_INPUT_CHARS => sent = u
            /\ Len(u) > MAX_INPUT_CHARS =>
                  \E h \in 0..Len(sent) :
                      sent = SubSeq(u, 1, h)
                                 \o SubSeq(u, Len(u) - (Len(sent) - h) + 1, Len(u))

\* ==================================================== Restoration Pipeline
SkewChoices == {0, 4, 7, 10, 11, 0 - 35}
LaplacianChoices == {50, 200, 400, 1000, 2000, 2001, 5000}
NoiseAfterChoices == {100, 2001}

Profiles ==
    [skew : SkewChoices, perspective : BOOLEAN, yellowed : BOOLEAN,
     shadows : BOOLEAN, laplacian : LaplacianChoices,
     background : {"uniform", "plain"}]

InitRestoration ==
    /\ apiKey = TRUE
    /\ today_spend = 0
    /\ daily_budget = 0
    /\ phase = "NotStarted"
    /\ \E p \in Profiles : context = [image_data |-> p]
    /\ ctxLog = <<>>
    /\ agentMsgs = [a \in Range(Agents) |-> <<>>]
    /\ pc = [s \in StageSet |-> "idle"]
    /\ historian_text = <<>>
    /\ validator_self = [warnings |-> <<>>, corrections |-> <<>>]
    /\ inconsistencyChecks = <<>>
    /\ parallel_results = <<>>
    /\ groupTimedOut = FALSE
    /\ repair = [pc |-> "idle", outcome |-> "none"]
    /\ stream = <<>>
    /\ clock = 0
    /\ final_context = [set |-> FALSE, ctx |-> <<>>]
    /\ result = [produced |-> FALSE]
    /\ error = "none"
    /\ cache = <<>>
    /\ cache_hits = 0
    /\ cache_misses = 0
    /\ req = NoRequests
    /\ llm_call = NoCall
    /\ sse = NoEvents

\* ScannerAgent.process on a decodable image, from its opening message to
\* the "Applied" message (main.py 1232-1274)
ScannerRestore(noise_after) ==
    /\ phase = "NotStarted"
    /\ "document_analysis" \notin DOMAIN context
    /\ LET e == ScannerEnhancement(context["image_data"], noise_after)
           msgs == Emit("scanner", <<<<"opening", NoConf, FALSE>>>> \o e.protos,
                        clock + 1)
       IN  /\ context' = PutAll(context, e.kvs)
           /\ ctxLog' = ctxLog \o LogOf(e.kvs, "scanner")
           /\ agentMsgs' = [agentMsgs EXCEPT !["scanner"] = msgs]
           /\ stream' = msgs
           /\ clock' = clock + Len(msgs) + 1
    /\ UNCHANGED <<apiKey, today_spend, daily_budget, phase, pc, historian_text,
                   validator_self, inconsistencyChecks, parallel_results,
                   groupTimedOut, repair, final_context, result, error>>
    /\ UNCHANGED <<cacheVars, edgeVars>>

NextRestoration == \E noise_after \in NoiseAfterChoices : ScannerRestore(noise_after)

\* the Restoration Pipeline applied to every drawn profile
RestorationSpec == InitRestoration /\ [][NextRestoration]_vars

Restored == "enhancements_applied" \in DOMAIN context

\* no defect flag of the analysis is set
NoFlagSet(doc_analysis) ==
    /\ ~doc_analysis.has_perspective
    /\ doc_analysis.skew_angle = 0
    /\ ~doc_analysis.has_shadows
    /\ ~doc_analysis.is_yellowed
    /\ ~doc_analysis.is_faded
    /\ doc_analysis.blur_level = "none"

MarkerRecorded == \E i \in DOMAIN context["enhancements_applied"] :
                      context["enhancements_applied"][i] = MinimalMarker

MarkerIffNoOperation == MarkerRecorded <=> context["enhanced_image_base64"] = <<>>

\* C22 as stated: for every profile in which no defect flag is set the
\* pipeline applies no operator and records exactly the "minimal processing"
\* marker; the marker is recorded if and only if no operation fired
C22_NoFlagNoOperator ==
    Restored =>
        /\ NoFlagSet(context["document_analysis"]) =>
              /\ context["enhanced_image_base64"] = <<>>
              /\ context["enhancements_applied"] = <<MinimalMarker>>
        /\ MarkerIffNoOperation

\* C22: for every profile in which no defect flag is set and whose Laplacian
\* variance does not exceed the noise threshold, the pipeline applies no
\* operator and records exactly the "minimal processing" marker; for every
\* profile the marker is recorded if and only if no operation fired
C22_NoFlagLowNoiseNoOperator ==
    Restored =>
        /\ (/\ NoFlagSet(context["document_analysis"])
            /\ context["image_data"].laplacian <= NoiseThreshold) =>
              /\ context["enhanced_image_base64"] = <<>>
              /\ context["enhancements_applied"] = <<MinimalMarker>>
        /\ MarkerIffNoOperation

\* a profile without a flag and within the noise threshold went through
C22_Witness ==
    /\ Restored
    /\ NoFlagSet(context["document_analysis"])
    /\ context["image_data"].laplacian <= NoiseThreshold
    /\ context["enhancements_applied"] = <<MinimalMarker>>

\* C23: for any recognized text, text with colonial-era historical terms
\* included, the Linguist stage completes without raising and writes
\* transliterated_text, linguistic_changes and historical_terms to the context
C23_LinguistCompletesAndWrites ==
    /\ pc["linguist"] # "raised"
    /\ pc["linguist"] = "done" =>
          {"transliterated_text", "linguistic_changes", "historical_terms"}
              \subseteq DOMAIN context

\* the one message of the Validator that speaks of low confidence
LowConfidenceKinds == {"low"}

\* C24: whenever the recognition confidence in the context is below 60, the
\* Validator stage emits a low-confidence warning message marked as debate
\* and the validator_warnings list it writes to the context is not empty
C24_LowConfidenceWarned ==
    (/\ pc["validator"] = "done"
     /\ Get(context, "ocr_confidence", 0) < MediumThreshold) =>
        /\ \E i \in DOMAIN agentMsgs["validator"] :
              /\ agentMsgs["validator"][i].kind \in LowConfidenceKinds
              /\ agentMsgs["validator"][i].is_debate
        /\ context["validator_warnings"] # <<>>

\* ========================================================== Repair Advisor
\* STEP 3 of resurrect on contexts drawn as the repair tests build them
\* (recognition confidences the Scanner itself never reports included)
RepairOcrChoices == {0, 450, 599, 600, 699, 700, 749, 820}

RepairContexts ==
    {[image_data |-> "clean", start_time |-> 0, raw_text |-> PlainText(1),
      ocr_confidence |-> o] : o \in RepairOcrChoices}

InitRepair ==
    /\ apiKey \in BOOLEAN
    /\ today_spend = 0
    /\ daily_budget \in BudgetChoices
    /\ phase = "BarrierReached"
    /\ context \in RepairContexts
    /\ ctxLog = <<>>
    /\ agentMsgs = [a \in Range(Agents) |-> <<>>]
    /\ pc = [s \in StageSet |-> "done"]
    /\ historian_text = <<>>
    /\ validator_self = [warnings |-> <<>>, corrections |-> <<>>]
    /\ inconsistencyChecks = <<>>
    /\ parallel_results = <<>>
    /\ groupTimedOut = FALSE
    /\ repair = [pc |-> "idle", outcome |-> "none"]
    /\ stream = <<>>
    /\ clock = 0
    /\ final_context = [set |-> FALSE, ctx |-> <<>>]
    /\ result = [produced |-> FALSE]
    /\ error = "none"
    /\ cache = <<>>
    /\ cache_hits = 0
    /\ cache_misses = 0
    /\ req = NoRequests
    /\ llm_call = NoCall
    /\ sse = NoEvents

NextRepair ==
    \/ FinalStart
    \/ \E resp \in RepairResponses, slow \in BOOLEAN : RepairFinish(resp, slow)
    \/ GetResult

\* the Repair Advisor applied to every drawn context
RepairSpec == InitRepair /\ [][NextRepair]_vars

Severities == {"critical", "moderate", "minor"}

\* C25: for any document whose recognition confidence is below 70%, the
\* Repair Advisor stage writes at least one repair recommendation to the
\* context, each with a severity in {critical, moderate, minor}
C25_LowConfidenceRecommended ==
    (/\ repair.outcome = "completed"
     /\ context["ocr_confidence"] < 700) =>
        /\ context["repair_recommendations"] # <<>>
        /\ \A i \in DOMAIN context["repair_recommendations"] :
              context["repair_recommendations"][i] \in Severities

\* C26: while the configured daily budget is unchanged, the recorded daily
\* spend never exceeds it, for any interleaving of concurrent
\* language-service calls
C26_SpendWithinBudget == today_spend <= daily_budget

\* ===================================================== /resurrect/stream
\* event_generator of resurrect_document_stream. The run of resurrect behind
\* it is what it looks like from here: it yields sse.pending more messages
\* and then ends, or raises (sse.raises: the Scanner's recognition failed).
MaxStreamMessages == 5

InitStream ==
    /\ apiKey = TRUE
    /\ today_spend = 0
    /\ daily_budget = 0
    /\ phase = "NotStarted"
    /\ context = <<>>
    /\ ctxLog = <<>>
    /\ agentMsgs = [a \in Range(Agents) |-> <<>>]
    /\ pc = [s \in StageSet |-> "idle"]
    /\ historian_text = <<>>
    /\ validator_self = [warnings |-> <<>>, corrections |-> <<>>]
    /\ inconsistencyChecks = <<>>
    /\ parallel_results = <<>>
    /\ groupTimedOut = FALSE
    /\ repair = [pc |-> "idle", outcome |-> "none"]
    /\ stream = <<>>
    /\ clock = 0
    /\ final_context = [set |-> FALSE, ctx |-> <<>>]
    /\ result = [produced |-> FALSE]
    /\ error = "none"
    /\ cache = <<>>
    /\ cache_hits = 0
    /\ cache_misses = 0
    /\ req = NoRequests
    /\ llm_call = NoCall
    /\ \E n \in 1..MaxStreamMessages, r \in BOOLEAN :
          sse = [NoEvents EXCEPT !.pending = n, !.raises = r]

sseFrame == <<apiKey, today_spend, daily_budget, phase, context, ctxLog,
              agentMsgs, pc, historian_text, validator_self,
              inconsistencyChecks, parallel_results, groupTimedOut, repair,
              stream, clock, final_context, result, error, cache, cache_hits,
              cache_misses, req, llm_call>>

SseEvent(type, detail) == [type |-> type, detail |-> detail]

\* the initial ping (main.py 2977-2981)
SseOpen ==
    /\ sse.pc = "idle"
    /\ sse' = [sse EXCEPT !.pc = "streaming",
                          !.events = Append(@, SseEvent("keepalive", ""))]
    /\ UNCHANGED sseFrame

\* one turn of the loop of process_with_timeout: past 90 s it yields a
\* timeout error and returns, otherwise it yields the message. The Scanner's
\* opening comes at once; time passes in the network calls after it
\* (main.py 2984-3007)
SseMessage(late) ==
    /\ sse.pc = "streaming"
    /\ sse.pending > 0
    /\ late => Len(sse.events) > 1
    /\ sse' = IF late
              THEN [sse EXCEPT !.pc = "compiling",
                               !.events = Append(@, SseEvent("error", "Processing timeout"))]
              ELSE [sse EXCEPT !.pending = @ - 1,
                               !.events = Append(@, SseEvent("message", Len(sse.events)))]
    /\ UNCHANGED sseFrame

\* resurrect raises: the except branch yields an error event
\* (main.py 3069-3075)
SseRaised ==
    /\ sse.pc = "streaming"
    /\ sse.pending = 0
    /\ sse.raises
    /\ sse' = [sse EXCEPT !.pc = "closed",
                          !.events = Append(@, SseEvent("error", "Processing error"))]
    /\ UNCHANGED sseFrame

\* the loop over process_with_timeout is over, by exhaustion or by its
\* return: get_result, then the archive save is awaited (main.py 3009-3030)
SseGetResult ==
    /\ \/ sse.pc = "compiling"
       \/ sse.pc = "streaming" /\ sse.pending = 0 /\ ~sse.raises
    /\ sse' = [sse EXCEPT !.pc = "saving"]
    /\ UNCHANGED sseFrame

ArchiveOutcomes == {"saved", "not_saved", "timeout"}

\* the archive save is back or timed out; the completion event
\* (main.py 3031-3061)
SseComplete(archive) ==
    /\ sse.pc = "saving"
    /\ sse' = [sse EXCEPT !.pc = "closed",
                          !.events = Append(@, SseEvent("complete",
                                                        IF archive = "saved" THEN "archive_id"
                                                        ELSE "None"))]
    /\ UNCHANGED sseFrame

NextStream ==
    \/ SseOpen
    \/ \E late \in BOOLEAN : SseMessage(late)
    \/ SseRaised
    \/ SseGetResult
    \/ \E archive \in ArchiveOutcomes : SseComplete(archive)

\* one streaming response for every drawn run
StreamSpec == InitStream /\ [][NextStream]_vars

TerminalEvents == {i \in DOMAIN sse.events : sse.events[i].type \in {"complete", "error"}}

\* C27: every streaming response ends with exactly one terminal event, one
\* 'complete' or one 'error', never both and never neither, and no event
\* is emitted after it
C27_OneTerminalEventLast ==
    /\ Cardinality(TerminalEvents) <= 1
    /\ \A i \in TerminalEvents : i = Len(sse.events)
    /\ sse.pc = "closed" => Cardinality(TerminalEvents) = 1

\* C28: the final confidence of a run is the same for every interleaving of
\* the parallel stages: the verified-facts count the Validator used is the
\* one the Historian produced in that run, never a missing value read from
\* the shared context before the Historian wrote it
C28_ConfidenceFromHistoriansFacts ==
    (/\ pc["validator"] = "done"
     /\ pc["historian"] = "done") =>
        context["final_confidence"] =
            CalculateFinalConfidence(context, validator_self.warnings)

\* C29: a cache hit on the full cached-resurrection endpoint always returns
\* an entry produced by a full pipeline run for that content (carrying
\* transliterated text, repair recommendations and damage hotspots),
\* whichever endpoints processed the same content earlier
C29_CachedHitReturnsFullEntry ==
    \A c \in Callers :
        (req[c].endpoint = "cached" /\ req[c].hit) =>
            {"transliterated_text", "repair_recommendations", "damage_hotspots"}
                \subseteq DOMAIN req[c].returned.result.result

\* the stage messages that went out on the output stream
StreamedStageMessages == {m \in Range(stream) : m.src # "coordinator"}

\* C30: for every completed run, the stage messages in the final record
\* (agent_messages) are exactly the stage messages that were emitted on the
\* output stream during that run
C30_RecordEqualsStream ==
    (phase = "Completed" /\ result.produced) =>
        Range(result.agent_messages) = StreamedStageMessages

====
